---------------------------- MODULE Spec2Model ----------------------------
(***************************************************************************)
(* A model of the SourcetrailDB analysis tools.                            *)
(*                                                                         *)
(*   SpecImpact   the test-impact analyzer                                 *)
(*                (examples/dependency_analyzer/src/main.cpp, lines 1-661) *)
(*   SpecIndexer  the test-mapping indexer                                 *)
(*                (examples/test_indexer/src/main.cpp)                     *)
(*                                                                         *)
(* Indices into vectors keep the values the C++ code uses (0-based, -1 for *)
(* "no parent"); a TLA+ sequence is read at index + 1.                     *)
(***************************************************************************)
EXTENDS Integers, Sequences, FiniteSets, TLC

VARIABLES
    \* ---- impact analyzer (dependency_analyzer main) ----
    pc,                  \* position of main: "resolve", "load", "bfs", "done", "exit"
    cfg,                 \* ConfigData: testNamespace, startSymbols, excludeSymbols
    briefEdges,          \* the edge stream of the database (getAllEdgesBrief)
    allStartSymbols,     \* resolved start symbol ids, across all specs
    startSymbolMode,     \* parallel vector: the mode of each resolved start
    incomingAdj,         \* id -> sequence of <<source id, edge kind>>
    outgoingAdj,         \* id -> sequence of <<target id, edge kind>>
    queue,               \* vector<QueueItem>
    head,                \* index of the next item to dequeue
    visited,             \* set of <<symbolId, modeKind>>
    foundTestSymbols,    \* vector of <<id, fqn>>: the hit list
    foundTestSymbolsSet, \* uniqueness by id
    foundTestFqnsSet,    \* uniqueness by fqn
    hitPaths,            \* the "Path:" line printed for each hit (ids)
    queueVia,            \* instrumentation: the edge kind each item was enqueued through
    limitWarning,        \* "results may be incomplete" was printed
    exitCode,            \* return value of main, -1 while running
    \* ---- test indexer (test_indexer main) ----
    ipc,                 \* position of the main thread
    testNamespace,       \* argv[3]
    numThreads,          \* number of Phase C workers
    iEdges,              \* the edge stream read by the indexer
    adjacency,           \* id -> sequence of <<target id, edge kind>>
    testMethodIds,       \* sorted unique test method ids
    mappingSet,          \* set of <<targetSymbolId, testMethodId>>
    mappingMutex,        \* owner of mappingMutex, or NoThread
    nextIndex,           \* atomic dispenser of method indices
    wpc,                 \* worker -> position
    wMethod,             \* worker -> testMethodId of the BFS in progress
    wVisited,            \* worker -> visited set of the BFS in progress
    wQ,                  \* worker -> BFS queue
    wCur,                \* worker -> node whose edges are being traversed
    wEdge,               \* worker -> number of edges of wCur already handled
    wBatch,              \* worker -> local batch of pairs
    methodsProcessed,    \* atomic counter
    nodesVisited,        \* atomic counter
    pairsDiscovered,     \* atomic counter
    stopProgress,        \* atomic flag
    ppc,                 \* position of the progress reporter thread
    tests,               \* rows of the tests table of the target database
    pending,             \* pairs of mappingSet still to be written in Phase D
    mappings,            \* count of successful recordTestMapping calls
    failures,            \* count of failed recordTestMapping calls
    \* ---- code chunker: sliceByRange on its own ----
    spc,                 \* "call" before sliceByRange is applied, "returned" after
    fileText,            \* the text of the source file
    scopeLoc,            \* startLine, startColumn, endLine, endColumn
    code,                \* the returned code_chunk
    \* ---- name codec of the reader: encodeSerialized, parseSerializedNameHierarchy ----
    cpc,                 \* "encode", "decode", "decoded"
    hElems,              \* the names of the hierarchy h (prefixes and postfixes are empty)
    hDelim,              \* the name delimiter of h
    serialized,          \* encodeSerialized(h)
    decoded,             \* parseSerializedNameHierarchy(serialized)
    \* ---- code chunker (code_chunker main) ----
    kpc,                 \* position of main: "select", "skip", "load", "emit", "done"
    ccfg,                \* ChunkerConfig: root_dir, indexed_root, chunk_output_root, paths_to_chunk
    files,               \* reader.getAllFiles(): records of id and filePath
    locTable,            \* the source locations of the database: <<symbol id, file id>> -> locations
    readable,            \* the local paths readFileToBuffer can open
    existingOutputs,     \* the paths under the output root that exist when main starts
    selectedFiles,       \* the files still to be chunked
    symbolsToVisitInFiles, \* file id -> the symbols of the file
    fileIdx,             \* number of files the emission loop has handled
    written,             \* the output files written so far, in order: path, file, file_path, chunks
    chunkerExit,         \* return value of main, -1 while running
    \* ---- decoder of the reader on arbitrary and truncated inputs ----
    dpc,                 \* "decode" before parseSerializedNameHierarchy is applied, "decoded" after
    rawInput,            \* the string handed to the decoder
    srcH,                \* the hierarchy whose serialized name was truncated, or NoHierarchy
    srcCut,              \* the number of tokens of the serialized name that were kept
    parsed,              \* parseSerializedNameHierarchy(rawInput)
    \* ---- SourcetrailDBReader: open, close and queries ----
    m_databaseStorage,   \* the open database (its path), or NoStorage
    m_lastError,         \* the last error message
    lastCall,            \* the last call made on the reader and what it returned
    dbNodes,             \* the node table of the compatible database on disk
    \* ---- impact analyzer: the config file ----
    configFile,          \* the lines of the config file, by section
    \* ---- test indexer: the worker pools of Phase B and Phase C ----
    poolPhase,           \* the phase whose pool is being started
    hwSeen,              \* the value std::thread::hardware_concurrency() returned, -1 before the call
    poolSize,            \* numThreads of the phase, 0 before it is computed
    spawned,             \* the number of workers started so far
    \* ---- test indexer: Phase B, discovery of the test methods ----
    bpc,                 \* position of main in Phase B
    discThreads,         \* numThreads of Phase B
    testClassKids,       \* the METHOD children of each test class, by its index in testClassIds
    classIndex,          \* the shared atomic cursor over testClassIds
    bwpc,                \* position of each Phase B worker
    bEnd,                \* end of the chunk each worker has claimed
    bI,                  \* the index each worker is at in its chunk
    localMethods,        \* the methods each worker has found and not yet published
    foundMethodIds,      \* testMethodIds as Phase B fills it
    classesProcessed,    \* atomic counter of the classes scanned
    methodsFound,        \* atomic counter of the methods found
    timesProcessed,      \* how many times each test class has been scanned
    \* ---- graph load of the impact analyzer ----
    lpc,                 \* position of main in the load: idle, symbols, edges, check, done
    loadFaults,          \* the storage queries that throw in this run
    loadErrors,          \* the loads that ended with a last error
    warned               \* the reader error the warning check printed, empty if none

varsImpact == <<pc, cfg, briefEdges, allStartSymbols, startSymbolMode,
                incomingAdj, outgoingAdj, queue, head, visited,
                foundTestSymbols, foundTestSymbolsSet, foundTestFqnsSet,
                hitPaths, queueVia, limitWarning, exitCode>>

varsIndexer == <<ipc, testNamespace, numThreads, iEdges, adjacency,
                 testMethodIds, mappingSet, mappingMutex,
                 nextIndex, wpc, wMethod, wVisited, wQ, wCur, wEdge, wBatch,
                 methodsProcessed, nodesVisited, pairsDiscovered,
                 stopProgress, ppc, tests, pending, mappings, failures>>

varsSlice == <<spc, fileText, scopeLoc, code>>

varsCodec == <<cpc, hElems, hDelim, serialized, decoded>>

varsChunker == <<kpc, ccfg, files, locTable, readable, existingOutputs, selectedFiles, symbolsToVisitInFiles, fileIdx, written, chunkerExit>>

varsDecode == <<dpc, rawInput, srcH, srcCut, parsed>>

varsReader == <<m_databaseStorage, m_lastError, lastCall, dbNodes>>

varsConfig == <<configFile>>

varsPool == <<poolPhase, hwSeen, poolSize, spawned>>

varsDisc == <<bpc, discThreads, testClassKids, classIndex, bwpc, bEnd, bI, localMethods, foundMethodIds, classesProcessed, methodsFound, timesProcessed>>

varsLoad == <<lpc, loadFaults, loadErrors, warned>>

vars == <<varsImpact, varsIndexer, varsSlice, varsCodec, varsChunker, varsDecode, varsReader, varsConfig, varsPool, varsDisc, varsLoad>>

\* what a run of one tool leaves alone: the state of the other tools
notImpact  == <<varsIndexer, varsSlice, varsCodec, varsChunker, varsDecode, varsReader, varsConfig, varsPool, varsDisc, varsLoad>>
notIndexer == <<varsImpact, varsSlice, varsCodec, varsChunker, varsDecode, varsReader, varsConfig, varsPool, varsDisc, varsLoad>>
notSlice   == <<varsImpact, varsIndexer, varsCodec, varsChunker, varsDecode, varsReader, varsConfig, varsPool, varsDisc, varsLoad>>
notCodec == <<varsImpact, varsIndexer, varsSlice, varsChunker, varsDecode, varsReader, varsConfig, varsPool, varsDisc, varsLoad>>
notChunker == <<varsImpact, varsIndexer, varsSlice, varsCodec, varsDecode, varsReader, varsConfig, varsPool, varsDisc, varsLoad>>
notDecode == <<varsImpact, varsIndexer, varsSlice, varsCodec, varsChunker, varsReader, varsConfig, varsPool, varsDisc, varsLoad>>
notReader == <<varsImpact, varsIndexer, varsSlice, varsCodec, varsChunker, varsDecode, varsConfig, varsPool, varsDisc, varsLoad>>
notConfig == <<varsImpact, varsIndexer, varsSlice, varsCodec, varsChunker, varsDecode, varsReader, varsPool, varsDisc, varsLoad>>
notPool == <<varsImpact, varsIndexer, varsSlice, varsCodec, varsChunker, varsDecode, varsReader, varsConfig, varsDisc, varsLoad>>
notDisc == <<varsImpact, varsIndexer, varsSlice, varsCodec, varsChunker, varsDecode, varsReader, varsConfig, varsPool, varsLoad>>
notLoad == <<varsImpact, varsIndexer, varsSlice, varsCodec, varsChunker, varsDecode, varsReader, varsConfig, varsPool, varsDisc>>

(***************************************************************************)
(* Bounds of the model.                                                    *)
(***************************************************************************)
\* longest edge stream of the impact analyzer's database
MaxEdges == 3
\* the model's value of the BFS safety cap (100000000 in the code)
MaxQueue == 5

(***************************************************************************)
(* Generic helpers on sequences.                                           *)
(***************************************************************************)
SeqToSet(s) == {s[i] : i \in 1..Len(s)}

\* all sequences over S of length at most n without repeated elements
DistinctSeqs(S, n) ==
    UNION {{s \in [1..k -> S] : \A i, j \in 1..k : i # j => s[i] # s[j]} : k \in 0..n}


(***************************************************************************)
(* The database read by the impact analyzer.  AllSymbols is the result of  *)
(* reader.getAllSymbols(): the symbol nodes in database order, each with   *)
(* its decoded name hierarchy.  Node 7 is a node that is not a symbol (it  *)
(* occurs only as an edge endpoint).                                       *)
(***************************************************************************)
NoSymbol == [id |-> 0, symbolKind |-> "TYPE", nameDelimiter |-> "::", names |-> <<>>]

AllSymbols ==
    << [id |-> 1, symbolKind |-> "METHOD", nameDelimiter |-> "::",
        names |-> <<"MyNS", "Foo", "bar">>],
       [id |-> 2, symbolKind |-> "CLASS", nameDelimiter |-> "::",
        names |-> <<"MyNS", "UnitTests", "FooTests">>],
       [id |-> 3, symbolKind |-> "METHOD", nameDelimiter |-> "::",
        names |-> <<"MyNS", "UnitTests", "FooTests", "testBar">>],
       [id |-> 4, symbolKind |-> "METHOD", nameDelimiter |-> "::",
        names |-> <<"MyNS", "UnitTests", "FooTests", "testBaz">>],
       [id |-> 5, symbolKind |-> "STRUCT", nameDelimiter |-> "::",
        names |-> <<"MyNS", "UnitTests", "BarTest">>],
       [id |-> 6, symbolKind |-> "METHOD", nameDelimiter |-> "::",
        names |-> <<"MyNS", "UnitTests", "BarTest", "testQux">>],
       [id |-> 8, symbolKind |-> "METHOD", nameDelimiter |-> "::",
        names |-> <<"MyNS", "Derived", "bar">>],
       [id |-> 9, symbolKind |-> "METHOD", nameDelimiter |-> "::",
        names |-> <<"I", "run">>],
       [id |-> 10, symbolKind |-> "METHOD", nameDelimiter |-> "::",
        names |-> <<"C", "run">>],
       [id |-> 11, symbolKind |-> "CLASS", nameDelimiter |-> "::",
        names |-> <<"UnitTests", "CTests">>],
       [id |-> 12, symbolKind |-> "METHOD", nameDelimiter |-> "::",
        names |-> <<"UnitTests", "CTests", "testRun">>] >>

\* the edges an edge stream is drawn from
EdgePool ==
    { [sourceSymbolId |-> 3, targetSymbolId |-> 1, edgeKind |-> "CALL"],
      [sourceSymbolId |-> 2, targetSymbolId |-> 3, edgeKind |-> "MEMBER"],
      [sourceSymbolId |-> 4, targetSymbolId |-> 1, edgeKind |-> "CALL"],
      [sourceSymbolId |-> 6, targetSymbolId |-> 4, edgeKind |-> "CALL"],
      [sourceSymbolId |-> 6, targetSymbolId |-> 1, edgeKind |-> "TYPE_USAGE"],
      [sourceSymbolId |-> 8, targetSymbolId |-> 1, edgeKind |-> "OVERRIDE"],
      [sourceSymbolId |-> 6, targetSymbolId |-> 8, edgeKind |-> "CALL"],
      [sourceSymbolId |-> 1, targetSymbolId |-> 3, edgeKind |-> "CALL"],
      [sourceSymbolId |-> 7, targetSymbolId |-> 1, edgeKind |-> "INCLUDE"] }

\* Scenario B: C::run overrides I::run, and testRun calls only C::run
ScenarioBEdges ==
    << [sourceSymbolId |-> 10, targetSymbolId |-> 9, edgeKind |-> "OVERRIDE"],
       [sourceSymbolId |-> 12, targetSymbolId |-> 10, edgeKind |-> "CALL"] >>

\* a self-loop, and two methods that override each other
SelfLoopEdges ==
    << [sourceSymbolId |-> 9, targetSymbolId |-> 9, edgeKind |-> "CALL"],
       [sourceSymbolId |-> 12, targetSymbolId |-> 9, edgeKind |-> "CALL"] >>

MutualOverrideEdges ==
    << [sourceSymbolId |-> 10, targetSymbolId |-> 9, edgeKind |-> "OVERRIDE"],
       [sourceSymbolId |-> 9, targetSymbolId |-> 10, edgeKind |-> "OVERRIDE"],
       [sourceSymbolId |-> 12, targetSymbolId |-> 10, edgeKind |-> "CALL"] >>

\* the edges of EdgePool from which streams with a cycle are made
CyclePool ==
    { [sourceSymbolId |-> 3, targetSymbolId |-> 1, edgeKind |-> "CALL"],
      [sourceSymbolId |-> 1, targetSymbolId |-> 3, edgeKind |-> "CALL"],
      [sourceSymbolId |-> 8, targetSymbolId |-> 1, edgeKind |-> "OVERRIDE"] }

\* the edge streams the impact analyzer is run on
EdgeStreams ==
    DistinctSeqs(EdgePool, MaxEdges)
        \cup {ScenarioBEdges, SelfLoopEdges, MutualOverrideEdges}

SpecBarAny    == [anyKind |-> TRUE,  kind |-> "CLASS",  pattern |-> "MyNS::Foo::bar"]
SpecBarMethod == [anyKind |-> FALSE, kind |-> "METHOD", pattern |-> "MyNS::Foo::bar"]
SpecBarClass  == [anyKind |-> FALSE, kind |-> "CLASS",  pattern |-> "MyNS::Foo::bar"]
SpecBarName   == [anyKind |-> TRUE,  kind |-> "CLASS",  pattern |-> "bar"]
SpecDerived   == [anyKind |-> TRUE,  kind |-> "CLASS",  pattern |-> "MyNS::Derived::bar"]
SpecIRun      == [anyKind |-> FALSE, kind |-> "METHOD", pattern |-> "I::run"]

\* the [start_symbols] sections a run is given, as parseConfigFile leaves them
\* (anyKind, kind and pattern of each line; kind is CLASS when anyKind is set)
StartLists ==
    { <<SpecBarMethod>>, <<SpecBarAny>>, <<SpecBarName>>, <<SpecBarClass>>,
      <<SpecDerived>>, <<SpecBarAny, SpecBarAny>>, <<SpecBarAny, SpecBarMethod>>,
      <<SpecBarClass, SpecBarAny>>, <<SpecIRun>> }

\* the [exclude_symbols] sections a run is given
ExcludeSets == {{}, {"FooTests"}, {"MyNS::UnitTests::FooTests"}}

(***************************************************************************)
(* String helpers of the analyzer.                                         *)
(***************************************************************************)
\* std::string::find("::") != npos
ContainsDelim(p) == \E i \in 1..(Len(p) - 1) : SubSeq(p, i, i + 1) = "::"

\* the text after the last "::" (line 290-292), "" when nothing follows it
TailOf(p) ==
    LET pos == CHOOSE i \in 1..(Len(p) - 1) :
                   /\ SubSeq(p, i, i + 1) = "::"
                   /\ \A j \in (i + 1)..(Len(p) - 1) : SubSeq(p, j, j + 1) # "::"
    IN  SubSeq(p, pos + 2, Len(p))

RECURSIVE JoinNames(_, _, _)
\* names[1] + delim + names[2] + ... + names[n]
JoinNames(names, delim, n) ==
    IF n = 0 THEN ""
    ELSE IF n = 1 THEN names[1]
    ELSE JoinNames(names, delim, n - 1) \o delim \o names[n]

buildFqnFromSymbol(s) == JoinNames(s.names, s.nameDelimiter, Len(s.names))

isTestClassName(n) ==
    \/ Len(n) >= 4 /\ SubSeq(n, Len(n) - 3, Len(n)) = "Test"
    \/ Len(n) >= 5 /\ SubSeq(n, Len(n) - 4, Len(n)) = "Tests"

(***************************************************************************)
(* Reader lookups used by start resolution, on symbols whose name elements *)
(* have empty prefix and postfix (all symbols of AllSymbols).              *)
(***************************************************************************)
findSymbolsByQualifiedName(qualifiedPattern) ==
    LET Match(s) == buildFqnFromSymbol(s) = qualifiedPattern
    IN  SelectSeq(AllSymbols, Match)

findSymbolsByName(name) ==
    IF ContainsDelim(name) THEN findSymbolsByQualifiedName(name)
    ELSE LET Match(s) == s.names # <<>> /\ s.names[Len(s.names)] = name
         IN  SelectSeq(AllSymbols, Match)

RECURSIVE UniqueById(_, _)
\* keeps the first symbol of each id (lines 311-321)
UniqueById(s, seen) ==
    IF s = <<>> THEN <<>>
    ELSE IF Head(s).id \in seen THEN UniqueById(Tail(s), seen)
    ELSE <<Head(s)>> \o UniqueById(Tail(s), seen \cup {Head(s).id})

\* the symbols one start spec resolves to (lines 286-321)
startSymbolsForSpec(spec) ==
    LET found ==
            IF ContainsDelim(spec.pattern)
            THEN LET q == findSymbolsByQualifiedName(spec.pattern)
                 IN  IF q = <<>> /\ TailOf(spec.pattern) # ""
                     THEN findSymbolsByName(TailOf(spec.pattern))
                     ELSE q
            ELSE findSymbolsByName(spec.pattern)
        KindOk(s) == s.symbolKind = spec.kind
        filtered == IF spec.anyKind THEN found ELSE SelectSeq(found, KindOk)
    IN  UniqueById(filtered, {})

\* the mode a spec gives to its start symbols: -1 (any) or the kind
ModeOf(spec) == IF spec.anyKind THEN "ANY" ELSE spec.kind

RECURSIVE ResolveAll(_)
\* <<id, mode>> of every resolved start, spec by spec (lines 284-327)
ResolveAll(specs) ==
    IF specs = <<>> THEN <<>>
    ELSE LET r == startSymbolsForSpec(Head(specs))
         IN  [i \in 1..Len(r) |-> <<r[i].id, ModeOf(Head(specs))>>]
             \o ResolveAll(Tail(specs))

(***************************************************************************)
(* The in-memory graph of the impact analyzer (lines 354-401).             *)
(***************************************************************************)
SetMax(S) == IF S = {} THEN 0 ELSE CHOOSE m \in S : \A x \in S : x <= m

\* maxId: the largest id among edge endpoints and symbols, at least 0
maxIdOf(edges) ==
    SetMax({0} \cup {edges[i].sourceSymbolId : i \in 1..Len(edges)}
               \cup {edges[i].targetSymbolId : i \in 1..Len(edges)}
               \cup {AllSymbols[i].id : i \in 1..Len(AllSymbols)})

\* symbolById[id]: the symbol stored at id, a default Symbol (id 0) elsewhere
symbolById(id) ==
    IF \E i \in 1..Len(AllSymbols) : AllSymbols[i].id = id
    THEN AllSymbols[CHOOSE i \in 1..Len(AllSymbols) :
                        /\ AllSymbols[i].id = id
                        /\ \A j \in (i + 1)..Len(AllSymbols) : AllSymbols[j].id # id]
    ELSE NoSymbol

\* the lambda getSymById: NoSymbol stands for nullptr
getSymById(id) ==
    IF id >= 0 /\ id <= maxIdOf(briefEdges) /\ symbolById(id).id # 0
    THEN symbolById(id)
    ELSE NoSymbol

\* fqnToIds[fqn]: the ids of the symbols with this FQN, in symbol order
fqnToIds(fqn) ==
    LET Same(s) == buildFqnFromSymbol(s) = fqn /\ fqn # ""
        hit == SelectSeq(AllSymbols, Same)
    IN  [i \in 1..Len(hit) |-> hit[i].id]

\* lines 396-399: the edge appended to the incoming list of its target
emplaceIncoming(adj, e, maxId) ==
    IF e.targetSymbolId >= 0 /\ e.targetSymbolId <= maxId
    THEN [adj EXCEPT ![e.targetSymbolId] = Append(@, <<e.sourceSymbolId, e.edgeKind>>)]
    ELSE adj

\* an edge put at the front of the outgoing list of its source
emplaceOutgoing_Front(adj, e, maxId) ==
    IF e.sourceSymbolId >= 0 /\ e.sourceSymbolId <= maxId
    THEN [adj EXCEPT ![e.sourceSymbolId] = <<<<e.targetSymbolId, e.edgeKind>>>> \o @]
    ELSE adj

\* lines 393-395: the edge appended to the outgoing list of its source
emplaceOutgoing(adj, e, maxId) ==
    IF e.sourceSymbolId >= 0 /\ e.sourceSymbolId <= maxId
    THEN [adj EXCEPT ![e.sourceSymbolId] = Append(@, <<e.targetSymbolId, e.edgeKind>>)]
    ELSE adj

RECURSIVE foldIncoming(_, _, _)
foldIncoming(edges, adj, maxId) ==
    IF edges = <<>> THEN adj
    ELSE foldIncoming(Tail(edges), emplaceIncoming(adj, Head(edges), maxId), maxId)

RECURSIVE foldOutgoing(_, _, _)
foldOutgoing(edges, adj, maxId) ==
    IF edges = <<>> THEN adj
    ELSE foldOutgoing(Tail(edges), emplaceOutgoing(adj, Head(edges), maxId), maxId)

\* lines 390-400: incomingAdj, maxId + 1 empty lists filled by the loop over
\* briefEdges
buildIncomingAdj(edges) ==
    foldIncoming(edges, [id \in 0..maxIdOf(edges) |-> <<>>], maxIdOf(edges))

\* lines 390-400: outgoingAdj
buildOutgoingAdj(edges) ==
    foldOutgoing(edges, [id \in 0..maxIdOf(edges) |-> <<>>], maxIdOf(edges))

(***************************************************************************)
(* The BFS of the impact analyzer (lines 406-639).                         *)
(***************************************************************************)
\* the safety cap on the number of enqueued items
BFS_LIMIT == MaxQueue

inNamespace(sym) ==
    /\ Len(sym.names) > 1
    /\ \E i \in 1..(Len(sym.names) - 1) : sym.names[i] = cfg.testNamespace

\* isIgnored as if only the FQN and the last element name were looked up
isIgnored_LastNameOnly(sym) ==
    /\ cfg.excludeSymbols # {}
    /\ \/ buildFqnFromSymbol(sym) \in cfg.excludeSymbols
       \/ sym.names # <<>> /\ sym.names[Len(sym.names)] \in cfg.excludeSymbols

\* the exclude check of lines 452-467
isIgnored(sym) ==
    LET fqnSym == buildFqnFromSymbol(sym)
        eachNameElementIgnored ==
            \E i \in 1..Len(sym.names) : sym.names[i] \in cfg.excludeSymbols
    IN  /\ cfg.excludeSymbols # {}
        /\ \/ fqnSym # "" /\ eachNameElementIgnored
           \/ fqnSym \in cfg.excludeSymbols
           \/ sym.names # <<>> /\ sym.names[Len(sym.names)] \in cfg.excludeSymbols

RECURSIVE buildPathChain_NoReverse(_, _)
\* buildPathChain as if the chain were not reversed: from the item to its root
buildPathChain_NoReverse(q, idx) ==
    IF idx < 0 THEN <<>>
    ELSE <<q[idx + 1].symbolId>> \o buildPathChain_NoReverse(q, q[idx + 1].parentIndex)

RECURSIVE buildPathChain(_, _)
\* the symbol ids from the root of queue item idx down to it
buildPathChain(q, idx) ==
    IF idx < 0 THEN <<>>
    ELSE Append(buildPathChain(q, q[idx + 1].parentIndex), q[idx + 1].symbolId)

\* ensureAddTestClass as if the two sets were not consulted
ensureAddTestClass_NoDedupe(f, classId, fqn, extraPathIds, currentIndex) ==
    IF classId <= 0 THEN f
    ELSE [ids   |-> f.ids \cup {classId},
          fqns  |-> f.fqns \cup {fqn},
          syms  |-> Append(f.syms, <<classId, fqn>>),
          paths |-> Append(f.paths, Append(buildPathChain(queue, currentIndex), classId))]

\* f is the hit state: syms (foundTestSymbols), ids, fqns, paths
ensureAddTestClass(f, classId, fqn, extraPathIds, currentIndex) ==
    IF classId <= 0 THEN f
    ELSE LET idInserted == classId \notin f.ids
             fqnInserted == fqn \notin f.fqns
             chain == buildPathChain(queue, currentIndex) \o extraPathIds
             pathIds == IF chain = <<>> \/ chain[Len(chain)] # classId
                        THEN Append(chain, classId)
                        ELSE chain
         IN  [ids   |-> f.ids \cup {classId},
              fqns  |-> f.fqns \cup {fqn},
              syms  |-> IF idInserted /\ fqnInserted
                        THEN Append(f.syms, <<classId, fqn>>) ELSE f.syms,
              paths |-> IF idInserted /\ fqnInserted
                        THEN Append(f.paths, pathIds) ELSE f.paths]

RECURSIVE promoteAll(_, _, _, _)
\* the loop of lines 568-572 over the ids registered for parentFqn
promoteAll(f, pids, parentFqn, currentIndex) ==
    IF pids = <<>> THEN f
    ELSE LET ps == getSymById(Head(pids))
             g  == IF ps # NoSymbol /\ ps.symbolKind \in {"CLASS", "STRUCT"}
                   THEN ensureAddTestClass(f, ps.id, parentFqn, <<ps.id>>, currentIndex)
                   ELSE f
         IN  promoteAll(g, Tail(pids), parentFqn, currentIndex)

\* the parent FQN of a method: all name elements but the last
parentFqnOf(sym) == JoinNames(sym.names, sym.nameDelimiter, Len(sym.names) - 1)

\* detection (lines 493-583): the new hit state, and whether the node is
\* left by the "continue" of line 578
detect(f, sym, currentIndex) ==
    IF ~inNamespace(sym) \/ sym.names = <<>>
    THEN [found |-> f, skip |-> FALSE]
    ELSE IF sym.symbolKind \in {"CLASS", "STRUCT"}
            /\ isTestClassName(sym.names[Len(sym.names)])
    THEN [found |-> ensureAddTestClass(f, sym.id, buildFqnFromSymbol(sym), <<>>,
                                       currentIndex),
          skip |-> FALSE]
    ELSE IF sym.symbolKind = "METHOD" /\ Len(sym.names) >= 2
            /\ isTestClassName(sym.names[Len(sym.names) - 1])
    THEN IF parentFqnOf(sym) \notin f.fqns
         THEN [found |-> promoteAll(f, fqnToIds(parentFqnOf(sym)),
                                    parentFqnOf(sym), currentIndex),
               skip |-> FALSE]
         ELSE [found |-> f, skip |-> TRUE]
    ELSE [found |-> f, skip |-> FALSE]

\* processEdge as if visited were not consulted
processEdge_NoVisited(st, neighborId, edgeKind, item, currentIndex) ==
    IF item.modeKind = "METHOD" /\ edgeKind \in {"MEMBER", "TYPE_USAGE"}
    THEN st
    ELSE [queue   |-> Append(st.queue,
                             [symbolId |-> neighborId, depth |-> item.depth + 1,
                              parentIndex |-> currentIndex,
                              modeKind |-> item.modeKind]),
          visited |-> st.visited \cup {<<neighborId, item.modeKind>>},
          via     |-> Append(st.via, edgeKind)]

\* processEdge as if the METHOD mode did not filter edge kinds
processEdge_NoFilter(st, neighborId, edgeKind, item, currentIndex) ==
    IF <<neighborId, item.modeKind>> \in st.visited
    THEN st
    ELSE [queue   |-> Append(st.queue,
                             [symbolId |-> neighborId, depth |-> item.depth + 1,
                              parentIndex |-> currentIndex,
                              modeKind |-> item.modeKind]),
          visited |-> st.visited \cup {<<neighborId, item.modeKind>>},
          via     |-> Append(st.via, edgeKind)]

\* st is the frontier state: queue, visited, via
processEdge_OwnIndex(st, neighborId, edgeKind, item, currentIndex) ==
    IF item.modeKind = "METHOD" /\ edgeKind \in {"MEMBER", "TYPE_USAGE"}
    THEN st
    ELSE IF <<neighborId, item.modeKind>> \in st.visited
    THEN st
    ELSE [queue   |-> Append(st.queue,
                             [symbolId |-> neighborId, depth |-> item.depth + 1,
                              parentIndex |-> Len(st.queue),
                              modeKind |-> item.modeKind]),
          visited |-> st.visited \cup {<<neighborId, item.modeKind>>},
          via     |-> Append(st.via, edgeKind)]

processEdge(st, neighborId, edgeKind, item, currentIndex) ==
    IF item.modeKind = "METHOD" /\ edgeKind \in {"MEMBER", "TYPE_USAGE"}
    THEN st
    ELSE IF <<neighborId, item.modeKind>> \in st.visited
    THEN st
    ELSE [queue   |-> Append(st.queue,
                             [symbolId |-> neighborId, depth |-> item.depth + 1,
                              parentIndex |-> currentIndex,
                              modeKind |-> item.modeKind]),
          visited |-> st.visited \cup {<<neighborId, item.modeKind>>},
          via     |-> Append(st.via, edgeKind)]

RECURSIVE processEdges(_, _, _, _)
\* processEdge over a list of <<neighbor, kind>> in order
processEdges(st, refs, item, currentIndex) ==
    IF refs = <<>> THEN st
    ELSE processEdges(processEdge(st, Head(refs)[1], Head(refs)[2], item, currentIndex),
                      Tail(refs), item, currentIndex)

\* expansion as if only the outgoing OVERRIDE edges were processed
expand_OutgoingOverrideOnly(st, sym, item, currentIndex) ==
    LET IsOverride(ref) == ref[2] = "OVERRIDE"
    IN  processEdges(st, SelectSeq(outgoingAdj[sym.id], IsOverride),
                     item, currentIndex)

\* expansion (lines 584-633): incoming edges, then outgoing OVERRIDE edges
expand(st, sym, item, currentIndex) ==
    LET IsOverride(ref) == ref[2] = "OVERRIDE"
        afterIn == processEdges(st, incomingAdj[sym.id], item, currentIndex)
    IN  processEdges(afterIn, SelectSeq(outgoingAdj[sym.id], IsOverride),
                     item, currentIndex)

\* the name codec of the reader: encodeSerialized, parseSerializedNameHierarchy has not been started
CodecIdle ==
    /\ cpc = "idle"
    /\ hElems = <<>>
    /\ hDelim = ""
    /\ serialized = ""
    /\ decoded = <<>>

\* the code chunker (code_chunker main) has not been started
ChunkerIdle ==
    /\ kpc = "idle"
    /\ ccfg = <<>>
    /\ files = <<>>
    /\ locTable = <<>>
    /\ readable = {}
    /\ existingOutputs = {}
    /\ selectedFiles = <<>>
    /\ symbolsToVisitInFiles = <<>>
    /\ fileIdx = 0
    /\ written = <<>>
    /\ chunkerExit = -1

\* the decoder of the reader on arbitrary and truncated inputs has not been started
DecodeIdle ==
    /\ dpc = "idle"
    /\ rawInput = ""
    /\ srcH = <<>>
    /\ srcCut = 0
    /\ parsed = <<>>

\* the SourcetrailDBReader: open, close and queries has not been started
ReaderIdle ==
    /\ m_databaseStorage = "nullptr"
    /\ m_lastError = ""
    /\ lastCall = <<>>
    /\ dbNodes = <<>>

\* the impact analyzer: the config file has not been started
ConfigIdle ==
    /\ configFile = <<>>

\* the test indexer: the worker pools of Phase B and Phase C has not been started
PoolIdle ==
    /\ poolPhase = "idle"
    /\ hwSeen = -1
    /\ poolSize = 0
    /\ spawned = 0

\* the test indexer: Phase B, discovery of the test methods has not been started
DiscIdle ==
    /\ bpc = "idle"
    /\ discThreads = 0
    /\ testClassKids = <<>>
    /\ classIndex = 0
    /\ bwpc = <<>>
    /\ bEnd = <<>>
    /\ bI = <<>>
    /\ localMethods = <<>>
    /\ foundMethodIds = <<>>
    /\ classesProcessed = 0
    /\ methodsFound = 0
    /\ timesProcessed = <<>>

\* the graph load of the impact analyzer has not been started
LoadIdle ==
    /\ lpc = "idle"
    /\ loadFaults = {}
    /\ loadErrors = {}
    /\ warned = ""

(***************************************************************************)
(* The test indexer at rest: the impact analyzer's runs leave it alone.     *)
(***************************************************************************)
\* sliceByRange is not being exercised
SliceIdle ==
    /\ spc = "idle"
    /\ fileText = ""
    /\ scopeLoc = <<0, 0, 0, 0>>
    /\ code = ""

\* the indexer has not been started
IndexerIdle ==
    /\ ipc = "idle"
    /\ testNamespace = ""
    /\ numThreads = 0
    /\ iEdges = <<>>
    /\ adjacency = <<>>
    /\ testMethodIds = <<>>
    /\ mappingSet = {}
    /\ mappingMutex = 0
    /\ nextIndex = 0
    /\ wpc = <<>>
    /\ wMethod = <<>>
    /\ wVisited = <<>>
    /\ wQ = <<>>
    /\ wCur = <<>>
    /\ wEdge = <<>>
    /\ wBatch = <<>>
    /\ methodsProcessed = 0
    /\ nodesVisited = 0
    /\ pairsDiscovered = 0
    /\ stopProgress = FALSE
    /\ ppc = "idle"
    /\ tests = <<>>
    /\ pending = {}
    /\ mappings = 0
    /\ failures = 0

(***************************************************************************)
(* main of the impact analyzer, from the parsed config on.                 *)
(***************************************************************************)
Configs ==
    [testNamespace  : {"UnitTests"},
     startSymbols   : StartLists,
     excludeSymbols : ExcludeSets]

InitImpact ==
    /\ pc = "resolve"
    /\ cfg \in Configs
    /\ briefEdges \in EdgeStreams
    /\ allStartSymbols = <<>>
    /\ startSymbolMode = <<>>
    /\ incomingAdj = <<>>
    /\ outgoingAdj = <<>>
    /\ queue = <<>>
    /\ head = 0
    /\ visited = {}
    /\ foundTestSymbols = <<>>
    /\ foundTestSymbolsSet = {}
    /\ foundTestFqnsSet = {}
    /\ hitPaths = <<>>
    /\ queueVia = <<>>
    /\ limitWarning = FALSE
    /\ exitCode = -1
    /\ IndexerIdle
    /\ SliceIdle
    /\ CodecIdle
    /\ ChunkerIdle
    /\ DecodeIdle
    /\ ReaderIdle
    /\ ConfigIdle
    /\ PoolIdle
    /\ DiscIdle
    /\ LoadIdle

\* lines 281-332: resolve the start specs; no start symbol at all is fatal
ResolveStart ==
    /\ pc = "resolve"
    /\ LET r == ResolveAll(cfg.startSymbols)
       IN  /\ allStartSymbols' = [i \in 1..Len(r) |-> r[i][1]]
           /\ startSymbolMode' = [i \in 1..Len(r) |-> r[i][2]]
           /\ IF r = <<>>
              THEN pc' = "exit" /\ exitCode' = 1
              ELSE pc' = "load" /\ UNCHANGED exitCode
    /\ UNCHANGED <<cfg, briefEdges, incomingAdj, outgoingAdj, queue, head, visited,
                   foundTestSymbols, foundTestSymbolsSet, foundTestFqnsSet,
                   hitPaths, queueVia, limitWarning>>
    /\ UNCHANGED notImpact

\* lines 348-420: build the adjacency lists and seed the queue
LoadGraph ==
    /\ pc = "load"
    /\ incomingAdj' = buildIncomingAdj(briefEdges)
    /\ outgoingAdj' = buildOutgoingAdj(briefEdges)
    /\ queue' = [i \in 1..Len(allStartSymbols) |->
                    [symbolId |-> allStartSymbols[i], depth |-> 0,
                     parentIndex |-> -1, modeKind |-> startSymbolMode[i]]]
    /\ queueVia' = [i \in 1..Len(allStartSymbols) |-> "SEED"]
    /\ visited' = {<<allStartSymbols[i], startSymbolMode[i]>> :
                      i \in 1..Len(allStartSymbols)}
    /\ head' = 0
    /\ pc' = "bfs"
    /\ UNCHANGED <<cfg, briefEdges, allStartSymbols, startSymbolMode,
                   foundTestSymbols, foundTestSymbolsSet, foundTestFqnsSet,
                   hitPaths, limitWarning, exitCode>>
    /\ UNCHANGED notImpact

\* the hit state before a step
foundNow == [syms |-> foundTestSymbols, ids |-> foundTestSymbolsSet,
             fqns |-> foundTestFqnsSet, paths |-> hitPaths]

\* the frontier state before a step
frontierNow == [queue |-> queue, visited |-> visited, via |-> queueVia]

\* one iteration of the while loop of lines 439-639
BfsStep ==
    /\ pc = "bfs"
    /\ head < Len(queue) /\ Len(queue) < BFS_LIMIT
    /\ LET currentIndex == head
           item == queue[head + 1]
           sym  == getSymById(item.symbolId)
           d    == detect(foundNow, sym, currentIndex)
           st   == expand(frontierNow, sym, item, currentIndex)
       IN  /\ head' = head + 1
           /\ IF sym = NoSymbol \/ isIgnored(sym)
              THEN UNCHANGED <<queue, visited, queueVia, foundTestSymbols,
                               foundTestSymbolsSet, foundTestFqnsSet, hitPaths>>
              ELSE /\ foundTestSymbols' = d.found.syms
                   /\ foundTestSymbolsSet' = d.found.ids
                   /\ foundTestFqnsSet' = d.found.fqns
                   /\ hitPaths' = d.found.paths
                   /\ IF d.skip
                      THEN UNCHANGED <<queue, visited, queueVia>>
                      ELSE /\ queue' = st.queue
                           /\ visited' = st.visited
                           /\ queueVia' = st.via
    /\ UNCHANGED <<pc, cfg, briefEdges, allStartSymbols, startSymbolMode,
                   incomingAdj, outgoingAdj, limitWarning, exitCode>>
    /\ UNCHANGED notImpact

\* the warning is printed only above the cap
limitReached_Above(q) == Len(q) > BFS_LIMIT

\* line 649: if (queue.size() >= BFS_LIMIT)
limitReached(q) == Len(q) >= BFS_LIMIT

\* lines 640-660: the loop has ended; report, warn on the cap, return 0
BfsDone ==
    /\ pc = "bfs"
    /\ ~(head < Len(queue) /\ Len(queue) < BFS_LIMIT)
    /\ limitWarning' = limitReached(queue)
    /\ exitCode' = 0
    /\ pc' = "done"
    /\ UNCHANGED <<cfg, briefEdges, allStartSymbols, startSymbolMode,
                   incomingAdj, outgoingAdj, queue, head, visited,
                   foundTestSymbols, foundTestSymbolsSet, foundTestFqnsSet,
                   hitPaths, queueVia>>
    /\ UNCHANGED notImpact

NextImpact == ResolveStart \/ LoadGraph \/ BfsStep \/ BfsDone

(***************************************************************************)
(* Specifications.                                                         *)
(***************************************************************************)
SpecImpact == InitImpact /\ [][NextImpact]_vars

\* the runs on edge streams with cycles: bar and testBar calling each other
\* among other edges, a self-loop, two methods overriding each other
InitCyclic ==
    /\ InitImpact
    /\ briefEdges \in DistinctSeqs(CyclePool, MaxEdges)
                        \cup {ScenarioBEdges, SelfLoopEdges, MutualOverrideEdges}

\* main is a single thread that runs until it returns
SpecImpactLive == InitCyclic /\ [][NextImpact]_vars /\ WF_vars(NextImpact)

(***************************************************************************)
(* Vocabulary of the claims about the impact analyzer.                     *)
(***************************************************************************)
SymbolSet == SeqToSet(AllSymbols)

HitIds == {foundTestSymbols[i][1] : i \in 1..Len(foundTestSymbols)}

\* a test class: CLASS or STRUCT under the test namespace, named *Test(s)
IsTestClass(s) ==
    /\ s.symbolKind \in {"CLASS", "STRUCT"}
    /\ s.names # <<>>
    /\ isTestClassName(s.names[Len(s.names)])
    /\ \E i \in 1..(Len(s.names) - 1) : s.names[i] = cfg.testNamespace

\* m is a method whose enclosing element is c
IsMethodOf(m, c) ==
    /\ m.symbolKind = "METHOD"
    /\ Len(m.names) = Len(c.names) + 1
    /\ SubSeq(m.names, 1, Len(c.names)) = c.names
    /\ m.nameDelimiter = c.nameDelimiter

\* s matches the exclude set by its FQN or by one of its element names
MatchesExclude(s) ==
    \/ buildFqnFromSymbol(s) \in cfg.excludeSymbols
    \/ \E i \in 1..Len(s.names) : s.names[i] \in cfg.excludeSymbols

RECURSIVE DependentsOf(_)
\* the symbols from which a node of S is reachable by following references:
\* S closed under "source of an incoming edge" and "target of an outgoing
\* OVERRIDE edge", going on only from nodes that are symbols
DependentsOf(S) ==
    LET known == {n \in S : \E s \in SymbolSet : s.id = n}
        more  == {briefEdges[i].sourceSymbolId : i \in
                     {j \in 1..Len(briefEdges) : briefEdges[j].targetSymbolId \in known}}
                 \cup
                 {briefEdges[i].targetSymbolId : i \in
                     {j \in 1..Len(briefEdges) :
                         /\ briefEdges[j].sourceSymbolId \in known
                         /\ briefEdges[j].edgeKind = "OVERRIDE"}}
    IN  IF more \subseteq S THEN S ELSE DependentsOf(S \cup more)

\* the item about to be dequeued, when there is one
AtItem == pc = "bfs" /\ head < Len(queue) /\ Len(queue) < BFS_LIMIT

RECURSIVE ParentChain(_)
\* the ids met walking the parent indices from queue index idx to a seed,
\* listed from the seed
ParentChain(idx) ==
    IF queue[idx + 1].parentIndex = -1 THEN <<queue[idx + 1].symbolId>>
    ELSE ParentChain(queue[idx + 1].parentIndex) \o <<queue[idx + 1].symbolId>>

\* Scenario A of the specification: bar <- testBar, FooTests -MEMBER-> testBar,
\* started from kind=METHOD, MyNS::Foo::bar
ScenarioAEdges ==
    { [sourceSymbolId |-> 3, targetSymbolId |-> 1, edgeKind |-> "CALL"],
      [sourceSymbolId |-> 2, targetSymbolId |-> 3, edgeKind |-> "MEMBER"] }

\* the line kind=METHOD, MyNS::Foo::bar
ScenarioAStart == <<SpecBarMethod>>

InScenarioA ==
    /\ SeqToSet(briefEdges) = ScenarioAEdges
    /\ cfg.startSymbols = ScenarioAStart
    /\ cfg.excludeSymbols = {}

\* Scenario C: Scenario A with FooTests in [exclude_symbols]
InScenarioC ==
    /\ SeqToSet(briefEdges) = ScenarioAEdges
    /\ cfg.startSymbols = ScenarioAStart
    /\ cfg.excludeSymbols = {"FooTests"}

(***************************************************************************)
(* C1.  Test-impact completeness: with an empty exclude set, every start   *)
(* in mode any and the safety cap not reached, the finished traversal has  *)
(* reported every test class one of whose methods depends on a start       *)
(* symbol.  (Dependence is taken through symbol nodes only, which asks     *)
(* less of the traversal than the claim does.)                             *)
(***************************************************************************)
C1_Completeness ==
    ( /\ pc = "done"
      /\ cfg.excludeSymbols = {}
      /\ \A i \in 1..Len(startSymbolMode) : startSymbolMode[i] = "ANY"
      /\ Len(queue) < BFS_LIMIT )
    => \A c \in SymbolSet :
          ( /\ IsTestClass(c)
            /\ \E m \in SymbolSet :
                  /\ IsMethodOf(m, c)
                  /\ m.id \in DependentsOf(SeqToSet(allStartSymbols)) )
          => c.id \in HitIds

(***************************************************************************)
(* C6.  Edge filter: no queue item of mode METHOD was enqueued through an  *)
(* edge of kind MEMBER or TYPE_USAGE (queueVia is the instrumentation that *)
(* records the edge kind of every enqueue).                                *)
(***************************************************************************)
C6_MethodModeEdgeFilter ==
    \A i \in 1..Len(queue) :
        queue[i].modeKind = "METHOD" => queueVia[i] \notin {"MEMBER", "TYPE_USAGE"}

\* a METHOD-mode node with a MEMBER or TYPE_USAGE edge towards it was
\* expanded, and an item was enqueued from it through another edge
C6_Witness ==
    \E i \in 1..Len(queue), j \in 1..Len(queue) :
        /\ i <= head
        /\ queue[i].modeKind = "METHOD"
        /\ \E k \in 1..Len(incomingAdj[queue[i].symbolId]) :
              incomingAdj[queue[i].symbolId][k][2] \in {"MEMBER", "TYPE_USAGE"}
        /\ queue[j].parentIndex = i - 1

(***************************************************************************)
(* C7.  Exclude pruning: no reconstructed path of a hit holds a symbol     *)
(* whose FQN or one of whose element names is in the exclude set, the      *)
(* reported class at its end included.                                     *)
(***************************************************************************)
C7_NoExcludedOnPath ==
    \A h \in 1..Len(hitPaths) :
        \A k \in 1..Len(hitPaths[h]) :
            \A s \in SymbolSet :
                s.id = hitPaths[h][k] => ~MatchesExclude(s)

(***************************************************************************)
(* C8.  A dequeued node that matches the exclude set is neither examined   *)
(* for detection nor expanded: the step that dequeues it adds no hit and   *)
(* enqueues nothing; Scenario C (Scenario A with FooTests excluded) ends   *)
(* with no hit.                                                            *)
(***************************************************************************)
C8_ExcludedNodeInert ==
    /\ [][ ( /\ AtItem
             /\ \E s \in SymbolSet :
                   s.id = queue[head + 1].symbolId /\ MatchesExclude(s) )
           => ( /\ foundTestSymbols' = foundTestSymbols
                /\ hitPaths' = hitPaths
                /\ queue' = queue
                /\ visited' = visited ) ]_vars
    /\ []( (pc = "done" /\ InScenarioC) => foundTestSymbols = <<>> )

\* Scenario C has run to its end, and testBar was dequeued on the way
C8_Witness ==
    /\ pc = "done"
    /\ InScenarioC
    /\ \E i \in 1..head : queue[i].symbolId = 3

(***************************************************************************)
(* C10.  Method-to-class promotion: when a METHOD under the test namespace *)
(* whose parent element is named *Test(s) is dequeued and no hit has its   *)
(* parent's FQN yet, the parent CLASS/STRUCT becomes the next hit, once,   *)
(* with the path: parent chain of the method, then the class.  Scenario A  *)
(* ends with the single hit MyNS::UnitTests::FooTests and the path         *)
(* MyNS::Foo::bar -> ...::FooTests::testBar -> MyNS::UnitTests::FooTests.  *)
(***************************************************************************)
C10_Promotion ==
    /\ [][ \A m, c \in SymbolSet :
             ( /\ AtItem
               /\ m.id = queue[head + 1].symbolId
               /\ ~MatchesExclude(m)
               /\ m.symbolKind = "METHOD"
               /\ \E i \in 1..(Len(m.names) - 1) : m.names[i] = cfg.testNamespace
               /\ IsMethodOf(m, c)
               /\ c.symbolKind \in {"CLASS", "STRUCT"}
               /\ isTestClassName(c.names[Len(c.names)])
               /\ \A h \in 1..Len(foundTestSymbols) :
                     foundTestSymbols[h][2] # buildFqnFromSymbol(c) )
             => ( /\ foundTestSymbols' =
                        Append(foundTestSymbols, <<c.id, buildFqnFromSymbol(c)>>)
                  /\ hitPaths' = Append(hitPaths, Append(ParentChain(head), c.id)) ) ]_vars
    /\ []( (pc = "done" /\ InScenarioA)
           => /\ foundTestSymbols = << <<2, "MyNS::UnitTests::FooTests">> >>
              /\ hitPaths = << <<1, 3, 2>> >>
              /\ [k \in 1..3 |-> buildFqnFromSymbol(symbolById(hitPaths[1][k]))]
                    = << "MyNS::Foo::bar",
                         "MyNS::UnitTests::FooTests::testBar",
                         "MyNS::UnitTests::FooTests" >> )

\* Scenario A has run to its end and reported a class by promotion
C10_Witness ==
    /\ pc = "done"
    /\ InScenarioA
    /\ Len(foundTestSymbols) = 1
    /\ \E i \in 1..head : queue[i].symbolId = 3 /\ queue[i].parentIndex = 0

(***************************************************************************)
(* C11.  Override crossing (Scenario B): started from kind=METHOD, I::run, *)
(* with C::run -OVERRIDE-> I::run and testRun -CALL-> C::run.              *)
(***************************************************************************)
InScenarioB ==
    /\ briefEdges = ScenarioBEdges
    /\ cfg.startSymbols = <<SpecIRun>>
    /\ cfg.excludeSymbols = {}

\* the finished traversal has reported exactly UnitTests::CTests, with the
\* path I::run -> C::run -> testRun -> CTests
ScenarioBResult ==
    /\ foundTestSymbols = << <<11, "UnitTests::CTests">> >>
    /\ hitPaths = << <<9, 10, 12, 11>> >>
    /\ [i \in 1..3 |-> queue[i].symbolId] = <<9, 10, 12>>
    /\ [i \in 1..3 |-> queue[i].parentIndex] = <<-1, 0, 1>>
    /\ [i \in 1..3 |-> queueVia[i]] = <<"SEED", "OVERRIDE", "CALL">>

\* C11 (as stated): Scenario B reports UnitTests::CTests, and the OVERRIDE
\* edge crossed from I::run to C::run is an outgoing edge of I::run.
C11_CrossesOutgoingOverride ==
    (pc = "done" /\ InScenarioB) =>
        /\ ScenarioBResult
        /\ \E k \in 1..Len(outgoingAdj[9]) : outgoingAdj[9][k] = <<10, "OVERRIDE">>

\* C11 (amended): Scenario B reports UnitTests::CTests with the path
\* I::run -> C::run -> testRun -> CTests; the OVERRIDE edge crossed from
\* I::run to C::run is an incoming edge of I::run (I::run has no outgoing
\* edge), and testRun is reached through the incoming CALL edge of C::run.
C11_OverrideCrossing ==
    (pc = "done" /\ InScenarioB) =>
        /\ ScenarioBResult
        /\ outgoingAdj[9] = <<>>
        /\ incomingAdj[9] = << <<10, "OVERRIDE">> >>
        /\ incomingAdj[10] = << <<12, "CALL">> >>

\* Scenario B has run to its end
C11_Witness ==
    /\ pc = "done"
    /\ InScenarioB
    /\ head = 3

C13_Terminates ==
    /\ <>(pc \in {"done", "exit"})
    /\ [](\A i, j \in 1..Len(queue) :
             (i < j /\ j > Len(allStartSymbols))
                => <<queue[i].symbolId, queue[i].modeKind>>
                      # <<queue[j].symbolId, queue[j].modeKind>>)

\* a traversal over a cycle of edges has ended with the cap not reached
C13_Witness ==
    /\ pc = "done"
    /\ ~limitWarning
    /\ briefEdges \in {SelfLoopEdges, MutualOverrideEdges}
    /\ head = Len(queue)
    /\ head >= 2

(***************************************************************************)
(* C14.  When the loop has ended the warning is printed exactly when some  *)
(* enqueued item was never dequeued; main then still returns 0 with the    *)
(* hits found so far.                                                      *)
(***************************************************************************)
C14_LimitWarning ==
    /\ [](pc = "done" => /\ (limitWarning <=> head < Len(queue))
                         /\ exitCode = 0)
    /\ [][pc' = "done" => /\ foundTestSymbols' = foundTestSymbols
                          /\ hitPaths' = hitPaths]_vars

\* the cap stopped a traversal that had found a hit
C14_Witness ==
    /\ pc = "done"
    /\ limitWarning
    /\ head < Len(queue)
    /\ foundTestSymbols # <<>>

(***************************************************************************)
(* The test indexer (examples/test_indexer/src/main.cpp).                   *)
(***************************************************************************)
\* most edges added to the Scenario D edge stream
MaxExtra == 2
\* the model's value of the batch size (256 in the code)
MaxBatch == 2
\* most Phase C workers (hardware_concurrency in the code)
MaxThreads == 2

\* the symbols of the source database read by the indexer
IdxSymbols ==
    << [id |-> 1, symbolKind |-> "NAMESPACE", nameDelimiter |-> "::",
        names |-> <<"UT">>],
       [id |-> 2, symbolKind |-> "CLASS", nameDelimiter |-> "::",
        names |-> <<"UT", "ATests">>],
       [id |-> 3, symbolKind |-> "METHOD", nameDelimiter |-> "::",
        names |-> <<"UT", "ATests", "m1">>],
       [id |-> 4, symbolKind |-> "METHOD", nameDelimiter |-> "::",
        names |-> <<"UT", "ATests", "m2">>],
       [id |-> 5, symbolKind |-> "FUNCTION", nameDelimiter |-> "::",
        names |-> <<"Lib", "a1">>],
       [id |-> 6, symbolKind |-> "FUNCTION", nameDelimiter |-> "::",
        names |-> <<"Lib", "a2">>],
       [id |-> 7, symbolKind |-> "FUNCTION", nameDelimiter |-> "::",
        names |-> <<"Lib", "b1">>],
       [id |-> 8, symbolKind |-> "CLASS", nameDelimiter |-> "::",
        names |-> <<"UT", "Helper">>],
       [id |-> 9, symbolKind |-> "METHOD", nameDelimiter |-> "::",
        names |-> <<"UT", "Helper", "run">>] >>

\* Scenario D: UT holds ATests with m1 and m2; m1 -> a1 -> a2; m2 -> b1
ScenarioDEdges ==
    << [sourceSymbolId |-> 1, targetSymbolId |-> 2, edgeKind |-> "MEMBER"],
       [sourceSymbolId |-> 2, targetSymbolId |-> 3, edgeKind |-> "MEMBER"],
       [sourceSymbolId |-> 2, targetSymbolId |-> 4, edgeKind |-> "MEMBER"],
       [sourceSymbolId |-> 3, targetSymbolId |-> 5, edgeKind |-> "CALL"],
       [sourceSymbolId |-> 5, targetSymbolId |-> 6, edgeKind |-> "CALL"],
       [sourceSymbolId |-> 4, targetSymbolId |-> 7, edgeKind |-> "CALL"] >>

\* edges a database may hold besides: a call back into m1, a local class of
\* m1, a callee shared by m1 and m2, a class of UT without the test suffix
\* and its method
ExtraEdges ==
    << [sourceSymbolId |-> 6, targetSymbolId |-> 3, edgeKind |-> "CALL"],
       [sourceSymbolId |-> 3, targetSymbolId |-> 8, edgeKind |-> "MEMBER"],
       [sourceSymbolId |-> 4, targetSymbolId |-> 5, edgeKind |-> "CALL"],
       [sourceSymbolId |-> 1, targetSymbolId |-> 8, edgeKind |-> "MEMBER"],
       [sourceSymbolId |-> 8, targetSymbolId |-> 9, edgeKind |-> "MEMBER"] >>

\* the edge streams the indexer is run on
IdxGraphs ==
    { LET Keep(e) == e \in X
      IN  ScenarioDEdges \o SelectSeq(ExtraEdges, Keep) :
        X \in {Y \in SUBSET SeqToSet(ExtraEdges) : Cardinality(Y) <= MaxExtra} }

\* the command lines: argv[3]
IdxNamespaces == {"UT", "Missing"}

\* reader.findSymbolsByQualifiedName(testNamespace, true), line 54
findNamespaceSymbols(ns) ==
    LET Match(s) == buildFqnFromSymbol(s) = ns
    IN  SelectSeq(IdxSymbols, Match)

\* lines 68-70
idxMaxId(edges) ==
    SetMax({0} \cup {edges[i].sourceSymbolId : i \in 1..Len(edges)}
               \cup {edges[i].targetSymbolId : i \in 1..Len(edges)}
               \cup {IdxSymbols[i].id : i \in 1..Len(IdxSymbols)})

\* symbolKindById[id], TYPE where no symbol is stored (lines 71-72)
symbolKindById(id) ==
    IF \E i \in 1..Len(IdxSymbols) : IdxSymbols[i].id = id
    THEN IdxSymbols[CHOOSE i \in 1..Len(IdxSymbols) :
                        /\ IdxSymbols[i].id = id
                        /\ \A j \in (i + 1)..Len(IdxSymbols) : IdxSymbols[j].id # id].symbolKind
    ELSE "TYPE"

\* reader.getSymbolById: a Symbol with id 0 when the node is not a symbol
getSymbolById(id) ==
    IF \E i \in 1..Len(IdxSymbols) : IdxSymbols[i].id = id
    THEN IdxSymbols[CHOOSE i \in 1..Len(IdxSymbols) : IdxSymbols[i].id = id]
    ELSE NoSymbol

\* adjacency[id]: <<target, kind>> of the edges leaving id, in stream order
buildAdjacency(edges) ==
    [id \in 0..idxMaxId(edges) |->
        LET From(e) == e.sourceSymbolId = id
            es == SelectSeq(edges, From)
        IN  [i \in 1..Len(es) |-> <<es[i].targetSymbolId, es[i].edgeKind>>]]

\* memberChildren[id]: targets of the MEMBER edges leaving id (lines 75-81)
memberChildren(edges, id) ==
    LET From(e) == e.sourceSymbolId = id /\ e.edgeKind = "MEMBER"
        es == SelectSeq(edges, From)
    IN  [i \in 1..Len(es) |-> es[i].targetSymbolId]

hasTestSuffix(name) ==
    \/ Len(name) >= 4 /\ SubSeq(name, Len(name) - 3, Len(name)) = "Test"
    \/ Len(name) >= 5 /\ SubSeq(name, Len(name) - 4, Len(name)) = "Tests"

RECURSIVE SortUnique(_)
\* std::sort followed by erase(unique): the ids of S in increasing order
SortUnique(S) ==
    IF S = {} THEN <<>>
    ELSE LET m == CHOOSE x \in S : \A y \in S : x <= y
         IN  <<m>> \o SortUnique(S \ {m})

\* Phase A (lines 84-111): the CLASS/STRUCT members of the namespace symbols
\* whose last name element has the test suffix
discoverTestClasses(nsSymbols, edges) ==
    LET maxId == idxMaxId(edges)
        kidsOf(ns) == IF ns.id >= 0 /\ ns.id <= maxId
                      THEN SeqToSet(memberChildren(edges, ns.id)) ELSE {}
        IsTestClassId(c) ==
            /\ c # 0
            /\ symbolKindById(c) \in {"CLASS", "STRUCT"}
            /\ getSymbolById(c).id # 0
            /\ LET nm == getSymbolById(c).names
               IN  hasTestSuffix(IF nm = <<>> THEN "" ELSE nm[Len(nm)])
    IN  SortUnique({c \in UNION {kidsOf(nsSymbols[i]) : i \in 1..Len(nsSymbols)} :
                       IsTestClassId(c)})

discoverTestMethods_NoUnique(testClassIds, edges) ==
    LET kidsOf(c) == SeqToSet(memberChildren(edges, c))
        found == SortUnique({k \in UNION {kidsOf(testClassIds[i]) : i \in 1..Len(testClassIds)} :
                                k # 0 /\ symbolKindById(k) = "METHOD"})
    IN  found \o found

\* Phase B (lines 114-189): the METHOD members of the test classes; the
\* workers' local lists are appended under testMethodMutex and the vector is
\* sorted and made unique, so the result is this list whatever the schedule
discoverTestMethods(testClassIds, edges) ==
    LET kidsOf(c) == SeqToSet(memberChildren(edges, c))
    IN  SortUnique({k \in UNION {kidsOf(testClassIds[i]) : i \in 1..Len(testClassIds)} :
                       k # 0 /\ symbolKindById(k) = "METHOD"})


(***************************************************************************)
(* Phase C: one forward BFS per test method, run by numThreads workers     *)
(* that batch their pairs and merge them into mappingSet under             *)
(* mappingMutex; a reporter thread reads the set's size under the same     *)
(* mutex.  Workers are 1..numThreads.                                      *)
(***************************************************************************)
\* mappingMutex is free
NoThread == 0
\* the progress reporter thread
Reporter == -1

Workers == 1..numThreads

\* batch.size() >= 256
kBatchSize == MaxBatch

\* the edge is recorded whatever its kind
edgeFollowed_AnyKind(ref) == ref[1] # 0

\* the edge is followed: not a MEMBER edge, and a target id other than 0
edgeFollowed(ref) == ref[2] # "MEMBER" /\ ref[1] # 0

\* a newly reached target is recorded but not traversed further
visitEdge_NoPush(loc, ref, m) ==
    IF edgeFollowed(ref) /\ ref[1] \notin loc.visited
    THEN [visited |-> loc.visited \cup {ref[1]},
          q       |-> loc.q,
          batch   |-> Append(loc.batch, <<ref[1], m>>)]
    ELSE loc

\* lines 249-254: the effect of one edge on the worker's visited, q and batch
visitEdge(loc, ref, m) ==
    IF edgeFollowed(ref) /\ ref[1] \notin loc.visited
    THEN [visited |-> loc.visited \cup {ref[1]},
          q       |-> Append(loc.q, ref[1]),
          batch   |-> Append(loc.batch, <<ref[1], m>>)]
    ELSE loc

\* the set is replaced by the batch
mergeBatch_Overwrite(ms, batch) == SeqToSet(batch)

\* for (const auto& p : batch) mappingSet.emplace(p)
mergeBatch(ms, batch) == ms \cup SeqToSet(batch)

\* adjacency[cur], empty for an id outside 0..maxId (line 247)
edgesOf(cur) ==
    IF cur \in DOMAIN adjacency THEN adjacency[cur] ELSE <<>>

idxInput == <<testNamespace, numThreads, iEdges, adjacency, testMethodIds>>
wLocal   == <<wMethod, wVisited, wQ, wCur, wEdge, wBatch>>
counters == <<methodsProcessed, nodesVisited, pairsDiscovered>>
phaseD   == <<tests, pending, mappings, failures>>

\* the impact analyzer has not been started
ImpactIdle ==
    /\ pc = "idle"
    /\ cfg = [testNamespace |-> "", startSymbols |-> <<>>, excludeSymbols |-> {}]
    /\ briefEdges = <<>>
    /\ allStartSymbols = <<>>
    /\ startSymbolMode = <<>>
    /\ incomingAdj = <<>>
    /\ outgoingAdj = <<>>
    /\ queue = <<>>
    /\ head = 0
    /\ visited = {}
    /\ foundTestSymbols = <<>>
    /\ foundTestSymbolsSet = {}
    /\ foundTestFqnsSet = {}
    /\ hitPaths = <<>>
    /\ queueVia = <<>>
    /\ limitWarning = FALSE
    /\ exitCode = -1

\* main has parsed its three arguments and opened the source database
InitIndexer ==
    /\ ipc = "start"
    /\ testNamespace \in IdxNamespaces
    /\ numThreads \in 1..MaxThreads
    /\ iEdges \in IdxGraphs
    /\ adjacency = <<>>
    /\ testMethodIds = <<>>
    /\ mappingSet = {}
    /\ mappingMutex = NoThread
    /\ nextIndex = 0
    /\ wpc = <<>>
    /\ wMethod = <<>>
    /\ wVisited = <<>>
    /\ wQ = <<>>
    /\ wCur = <<>>
    /\ wEdge = <<>>
    /\ wBatch = <<>>
    /\ methodsProcessed = 0
    /\ nodesVisited = 0
    /\ pairsDiscovered = 0
    /\ stopProgress = FALSE
    /\ ppc = "idle"
    /\ tests = <<>>
    /\ pending = {}
    /\ mappings = 0
    /\ failures = 0
    /\ ImpactIdle
    /\ SliceIdle
    /\ CodecIdle
    /\ ChunkerIdle
    /\ DecodeIdle
    /\ ReaderIdle
    /\ ConfigIdle
    /\ PoolIdle
    /\ DiscIdle
    /\ LoadIdle

\* lines 54-59: a test namespace that names no symbol ends the run with 1
FindNamespace ==
    /\ ipc = "start"
    /\ ipc' = IF findNamespaceSymbols(testNamespace) = <<>> THEN "failed" ELSE "discover"
    /\ UNCHANGED <<idxInput, mappingSet, mappingMutex, nextIndex, wpc, wLocal,
                   counters, stopProgress, ppc, phaseD>>
    /\ UNCHANGED notIndexer

\* lines 63-190: load the graph, discover the test classes and their methods
Discover ==
    /\ ipc = "discover"
    /\ adjacency' = buildAdjacency(iEdges)
    /\ testMethodIds' =
          discoverTestMethods(
              discoverTestClasses(findNamespaceSymbols(testNamespace), iEdges),
              iEdges)
    /\ ipc' = "spawn"
    /\ UNCHANGED <<testNamespace, numThreads, iEdges, mappingSet, mappingMutex,
                   nextIndex, wpc, wLocal, counters, stopProgress, ppc, phaseD>>
    /\ UNCHANGED notIndexer

\* lines 194-274: start the reporter and the workers
SpawnWorkers ==
    /\ ipc = "spawn"
    /\ ppc' = "check"
    /\ wpc' = [w \in Workers |-> "fetch"]
    /\ wMethod' = [w \in Workers |-> 0]
    /\ wVisited' = [w \in Workers |-> {}]
    /\ wQ' = [w \in Workers |-> <<>>]
    /\ wCur' = [w \in Workers |-> 0]
    /\ wEdge' = [w \in Workers |-> 0]
    /\ wBatch' = [w \in Workers |-> <<>>]
    /\ ipc' = "join"
    /\ UNCHANGED <<idxInput, mappingSet, mappingMutex, nextIndex, counters,
                   stopProgress, phaseD>>
    /\ UNCHANGED notIndexer


\* lines 238-243: claim the next method index, or leave the loop
WFetch(w) ==
    /\ ipc = "join" /\ w \in Workers /\ wpc[w] = "fetch"
    /\ nextIndex' = nextIndex + 1
    /\ IF nextIndex >= Len(testMethodIds)
       THEN /\ wpc' = [wpc EXCEPT ![w] = "exit"]
            /\ UNCHANGED wLocal
       ELSE LET testMethodId == testMethodIds[nextIndex + 1]
            IN  /\ wMethod' = [wMethod EXCEPT ![w] = testMethodId]
                /\ wVisited' = [wVisited EXCEPT ![w] = {testMethodId}]
                /\ wQ' = [wQ EXCEPT ![w] = <<testMethodId>>]
                /\ wpc' = [wpc EXCEPT ![w] = "bfs"]
                /\ UNCHANGED <<wCur, wEdge, wBatch>>
    /\ UNCHANGED <<ipc, idxInput, mappingSet, mappingMutex, counters,
                   stopProgress, ppc, phaseD>>
    /\ UNCHANGED notIndexer

\* lines 244-247 and 265-271: pop the next node, or end this method's BFS
WPop(w) ==
    /\ ipc = "join" /\ w \in Workers /\ wpc[w] = "bfs"
    /\ IF wQ[w] # <<>>
       THEN LET cur == Head(wQ[w])
            IN  /\ wQ' = [wQ EXCEPT ![w] = Tail(wQ[w])]
                /\ wCur' = [wCur EXCEPT ![w] = cur]
                /\ wEdge' = [wEdge EXCEPT ![w] = 0]
                /\ nodesVisited' = nodesVisited + 1
                /\ wpc' = [wpc EXCEPT ![w] =
                              IF edgesOf(cur) = <<>> THEN "bfs" ELSE "edges"]
                /\ UNCHANGED methodsProcessed
       ELSE /\ IF wBatch[w] # <<>>
               THEN /\ wpc' = [wpc EXCEPT ![w] = "lockFinal"]
                    /\ UNCHANGED methodsProcessed
               ELSE /\ wpc' = [wpc EXCEPT ![w] = "fetch"]
                    /\ methodsProcessed' = methodsProcessed + 1
            /\ UNCHANGED <<wQ, wCur, wEdge, nodesVisited>>
    /\ UNCHANGED <<ipc, idxInput, mappingSet, mappingMutex, nextIndex,
                   wMethod, wVisited, wBatch, pairsDiscovered,
                   stopProgress, ppc, phaseD>>
    /\ UNCHANGED notIndexer

\* lines 248-256: the next edge of the node being expanded
WEdge(w) ==
    /\ ipc = "join" /\ w \in Workers /\ wpc[w] = "edges"
    /\ LET edges == edgesOf(wCur[w])
           ref   == edges[wEdge[w] + 1]
           loc   == [visited |-> wVisited[w], q |-> wQ[w], batch |-> wBatch[w]]
           new   == visitEdge(loc, ref, wMethod[w])
           added == Len(new.batch) > Len(loc.batch)
       IN  /\ wVisited' = [wVisited EXCEPT ![w] = new.visited]
           /\ wQ' = [wQ EXCEPT ![w] = new.q]
           /\ wBatch' = [wBatch EXCEPT ![w] = new.batch]
           /\ wEdge' = [wEdge EXCEPT ![w] = wEdge[w] + 1]
           /\ pairsDiscovered' = IF added THEN pairsDiscovered + 1 ELSE pairsDiscovered
           /\ wpc' = [wpc EXCEPT ![w] =
                         IF added /\ Len(new.batch) >= kBatchSize THEN "lockMid"
                         ELSE IF wEdge[w] + 1 >= Len(edges) THEN "bfs"
                         ELSE "edges"]
    /\ UNCHANGED <<ipc, idxInput, mappingSet, mappingMutex, nextIndex,
                   wMethod, wCur, methodsProcessed, nodesVisited,
                   stopProgress, ppc, phaseD>>
    /\ UNCHANGED notIndexer

\* a lock_guard that never waits for the mutex
lockAvailable_Always == TRUE

\* a mutex that is never handed to a waiting thread
lockAvailable_Never == FALSE

\* std::lock_guard's constructor returns only once the mutex is free
\* (lines 215, 257 and 267)
lockAvailable == mappingMutex = NoThread

\* lines 257 and 267: std::lock_guard acquires mappingMutex
WLock(w) ==
    /\ ipc = "join" /\ w \in Workers /\ wpc[w] \in {"lockMid", "lockFinal"}
    /\ lockAvailable
    /\ mappingMutex' = w
    /\ wpc' = [wpc EXCEPT ![w] = IF wpc[w] = "lockMid" THEN "mergeMid" ELSE "mergeFinal"]
    /\ UNCHANGED <<ipc, idxInput, mappingSet, nextIndex, wLocal, counters,
                   stopProgress, ppc, phaseD>>
    /\ UNCHANGED notIndexer

\* lines 258-260 and 268-271: merge the batch, clear it, release the mutex
WMerge(w) ==
    /\ ipc = "join" /\ w \in Workers /\ wpc[w] \in {"mergeMid", "mergeFinal"}
    /\ mappingSet' = mergeBatch(mappingSet, wBatch[w])
    /\ wBatch' = [wBatch EXCEPT ![w] = <<>>]
    /\ mappingMutex' = NoThread
    /\ IF wpc[w] = "mergeMid"
       THEN /\ wpc' = [wpc EXCEPT ![w] =
                          IF wEdge[w] >= Len(edgesOf(wCur[w])) THEN "bfs" ELSE "edges"]
            /\ UNCHANGED methodsProcessed
       ELSE /\ wpc' = [wpc EXCEPT ![w] = "fetch"]
            /\ methodsProcessed' = methodsProcessed + 1
    /\ UNCHANGED <<ipc, idxInput, nextIndex, wMethod, wVisited, wQ, wCur, wEdge,
                   nodesVisited, pairsDiscovered, stopProgress, ppc, phaseD>>
    /\ UNCHANGED notIndexer

\* line 209: the reporter tests stopProgress
PCheck ==
    /\ ppc = "check"
    /\ ppc' = IF stopProgress THEN "exit" ELSE "lock"
    /\ UNCHANGED <<ipc, idxInput, mappingSet, mappingMutex, nextIndex, wpc, wLocal,
                   counters, stopProgress, phaseD>>
    /\ UNCHANGED notIndexer

\* line 215: the reporter acquires mappingMutex
PLock ==
    /\ ppc = "lock"
    /\ lockAvailable
    /\ mappingMutex' = Reporter
    /\ ppc' = "read"
    /\ UNCHANGED <<ipc, idxInput, mappingSet, nextIndex, wpc, wLocal,
                   counters, stopProgress, phaseD>>
    /\ UNCHANGED notIndexer

\* lines 216-222: read the size, release the mutex, print, sleep
PRead ==
    /\ ppc = "read"
    /\ mappingMutex' = NoThread
    /\ ppc' = "check"
    /\ UNCHANGED <<ipc, idxInput, mappingSet, nextIndex, wpc, wLocal,
                   counters, stopProgress, phaseD>>
    /\ UNCHANGED notIndexer

\* lines 276-277: every worker has returned; tell the reporter to stop
JoinWorkers ==
    /\ ipc = "join"
    /\ \A w \in Workers : wpc[w] = "exit"
    /\ stopProgress' = TRUE
    /\ ipc' = "joinProgress"
    /\ UNCHANGED <<idxInput, mappingSet, mappingMutex, nextIndex, wpc, wLocal,
                   counters, ppc, phaseD>>
    /\ UNCHANGED notIndexer

\* lines 278-287: the reporter has returned; open the target database (which
\* may fail: return 1) and begin the transaction
OpenWriter ==
    /\ ipc = "joinProgress"
    /\ ppc = "exit"
    /\ \E opened \in BOOLEAN :
          IF opened
          THEN ipc' = "write" /\ pending' = mappingSet
          ELSE ipc' = "failed" /\ UNCHANGED pending
    /\ UNCHANGED <<idxInput, mappingSet, mappingMutex, nextIndex, wpc, wLocal,
                   counters, stopProgress, ppc, tests, mappings, failures>>
    /\ UNCHANGED notIndexer


(***************************************************************************)
(* Phase D.  The writer is not part of these sources: the tests table is   *)
(* modelled from its contract, rows of (symbol_id, test_symbol_id) under a *)
(* unique constraint, filled by INSERT OR IGNORE, each insert able to      *)
(* fail.  The table is empty when the run starts.                          *)
(***************************************************************************)
\* the table after recordTestMapping(p) with outcome ok
recordTestMapping(rows, p, ok) ==
    IF ok /\ p \notin SeqToSet(rows) THEN Append(rows, p) ELSE rows

\* std::set iterates in increasing (first, second) order
firstPair(S) ==
    CHOOSE p \in S : \A r \in S : p[1] < r[1] \/ (p[1] = r[1] /\ p[2] <= r[2])

\* every call is counted as a success
mappingsAfter_Always(n, ok) == n + 1

\* line 290: ++mappings when recordTestMapping returned true
mappingsAfter(n, ok) == IF ok THEN n + 1 ELSE n

\* lines 289-292: one iteration of the loop over mappingSet
pendingAfter_AbortOnFailure(S, p, ok) == IF ok THEN S \ {p} ELSE {}

\* the range-for goes on to the next pair whatever the call returned
pendingAfter(S, p, ok) == S \ {p}

RecordMapping ==
    /\ ipc = "write"
    /\ pending # {}
    /\ LET p == firstPair(pending)
       IN  \E ok \in BOOLEAN :
              /\ tests' = recordTestMapping(tests, p, ok)
              /\ mappings' = mappingsAfter(mappings, ok)
              /\ failures' = IF ok THEN failures ELSE failures + 1
              /\ pending' = pendingAfter(pending, p, ok)
    /\ UNCHANGED <<ipc, idxInput, mappingSet, mappingMutex, nextIndex, wpc, wLocal,
                   counters, stopProgress, ppc>>
    /\ UNCHANGED notIndexer

\* lines 293-296: commit, close, return 0
CommitMappings ==
    /\ ipc = "write"
    /\ pending = {}
    /\ ipc' = "done"
    /\ UNCHANGED <<idxInput, mappingSet, mappingMutex, nextIndex, wpc, wLocal,
                   counters, stopProgress, ppc, phaseD>>
    /\ UNCHANGED notIndexer

WorkerStep == \E w \in 1..MaxThreads :
                 WFetch(w) \/ WPop(w) \/ WEdge(w) \/ WLock(w) \/ WMerge(w)

NextIndexer ==
    \/ FindNamespace
    \/ Discover
    \/ SpawnWorkers
    \/ WorkerStep
    \/ PCheck
    \/ PLock
    \/ PRead
    \/ JoinWorkers
    \/ OpenWriter
    \/ RecordMapping
    \/ CommitMappings

SpecIndexer == InitIndexer /\ [][NextIndexer]_vars


(***************************************************************************)
(* Vocabulary of the claims about the test indexer, computed from the edge *)
(* stream and not from the workers' data structures.                       *)
(***************************************************************************)
\* the targets of the non-MEMBER edges leaving u
NonMemberTargets(u) ==
    {iEdges[i].targetSymbolId : i \in {j \in 1..Len(iEdges) :
        iEdges[j].sourceSymbolId = u /\ iEdges[j].edgeKind # "MEMBER"}}

RECURSIVE ForwardClosure(_)
ForwardClosure(S) ==
    LET N == S \cup UNION {NonMemberTargets(u) : u \in S}
    IN  IF N = S THEN S ELSE ForwardClosure(N)

\* the nodes at the end of a path of one or more non-MEMBER edges from m
ReachedFrom(m) == ForwardClosure(NonMemberTargets(m))

TestMethodSet == SeqToSet(testMethodIds)

\* Phase C is over: every worker has been joined
AfterPhaseC ==
    \/ ipc \in {"joinProgress", "write", "done"}
    \/ ipc = "failed" /\ stopProgress

NoDuplicateRows == \A i, j \in 1..Len(tests) : i # j => tests[i] # tests[j]

C3_OrderIndependent ==
    AfterPhaseC =>
        /\ mappingSet = {p \in (0..idxMaxId(iEdges)) \X TestMethodSet :
                             p[1] \in ReachedFrom(p[2]) \ {p[2]}}
        /\ \A w \in Workers : wBatch[w] = <<>>

\* two workers have been joined, each having run the BFS of a different
\* test method, and the merged set holds at least three pairs
C3_Witness ==
    /\ AfterPhaseC
    /\ numThreads = 2
    /\ wMethod[1] # 0 /\ wMethod[2] # 0 /\ wMethod[1] # wMethod[2]
    /\ Cardinality(mappingSet) >= 3

\* C4: every pair (t, m) of the mapping set has m a discovered test method
\* and t at the end of a path of one or more non-MEMBER edges from m; on
\* Scenario D the set after Phase C is {(a1,m1), (a2,m1), (b1,m2)}.
C4_Soundness ==
    /\ \A p \in mappingSet : p[2] \in TestMethodSet /\ p[1] \in ReachedFrom(p[2])
    /\ (AfterPhaseC /\ iEdges = ScenarioDEdges /\ TestMethodSet # {})
          => mappingSet = {<<5, 3>>, <<6, 3>>, <<7, 4>>}

\* Phase C has ended on a graph where m1 has a MEMBER edge to a local class
C4_Witness ==
    /\ AfterPhaseC
    /\ \E i \in 1..Len(iEdges) :
          iEdges[i] = [sourceSymbolId |-> 3, targetSymbolId |-> 8, edgeKind |-> "MEMBER"]
    /\ <<5, 3>> \in mappingSet

MaxText == 4
\* largest line number of a generated location
MaxLine == 3
\* largest column number of a generated location
MaxCol == 3

\* Scenario E: the text of src/foo.cc and the SCOPE of y
ScenarioEText == "int x;\nvoid y(){}\n"
ScenarioELoc == <<2, 1, 2, 11>>

RECURSIVE Concat(_)
\* the string made of the one-character strings of cs
Concat(cs) == IF cs = <<>> THEN "" ELSE Head(cs) \o Concat(Tail(cs))

\* the file texts: every text of at most MaxText characters over a letter
\* and the newline, and the text of Scenario E
Texts ==
    {Concat(cs) : cs \in UNION {[1..n -> {"x", "\n"}] : n \in 0..MaxText}}
        \cup {ScenarioEText}

\* the source locations: <<startLine, startColumn, endLine, endColumn>>
Locations ==
    ((0..MaxLine) \X (0..MaxCol) \X (0..MaxLine) \X (0..MaxCol))
        \cup {ScenarioELoc}

RECURSIVE lineStartsFrom(_, _)
\* i + 1 for every 0-based index i >= from - 1 with text[i] = '\n'
lineStartsFrom(text, from) ==
    IF from > Len(text) THEN <<>>
    ELSE IF SubSeq(text, from, from) = "\n"
         THEN <<from>> \o lineStartsFrom(text, from + 1)
         ELSE lineStartsFrom(text, from + 1)

\* buildLineOffsets recording the offset of each newline instead of the
\* offset after it
buildLineOffsets_AtNewline(text) ==
    LET nls == lineStartsFrom(text, 1)
    IN  <<0>> \o [k \in 1..Len(nls) |-> nls[k] - 1] \o <<Len(text)>>

\* lines 316-331: 0, the offset after each newline, and the size as sentinel
buildLineOffsets(text) == <<0>> \o lineStartsFrom(text, 1) \o <<Len(text)>>

\* sliceByRange as if the end column were exclusive
sliceByRange_ExclusiveEnd(text, lineOffs, startLine, startCol, endLine, endCol) ==
    IF startLine <= 0 \/ endLine <= 0 THEN ""
    ELSE IF startLine >= Len(lineOffs) \/ endLine >= Len(lineOffs) THEN ""
    ELSE LET start0 == lineOffs[startLine] + (IF startCol > 0 THEN startCol - 1 ELSE 0)
             end0   == IF endCol > 0 THEN lineOffs[endLine] + endCol - 1
                       ELSE lineOffs[endLine + 1]
             start  == IF start0 > Len(text) THEN Len(text) ELSE start0
             end1   == IF end0 > Len(text) THEN Len(text) ELSE end0
             end    == IF end1 < start THEN start ELSE end1
         IN  SubSeq(text, start + 1, end)

\* lines 333-363; lineOffs[k] of the code is lineOffs[k + 1] here
sliceByRange(text, lineOffs, startLine, startCol, endLine, endCol) ==
    IF startLine <= 0 \/ endLine <= 0 THEN ""
    ELSE IF startLine >= Len(lineOffs) \/ endLine >= Len(lineOffs) THEN ""
    ELSE LET start0 == lineOffs[startLine] + (IF startCol > 0 THEN startCol - 1 ELSE 0)
             end0   == IF endCol > 0 THEN lineOffs[endLine] + endCol
                       ELSE lineOffs[endLine + 1]
             start  == IF start0 > Len(text) THEN Len(text) ELSE start0
             end1   == IF end0 > Len(text) THEN Len(text) ELSE end0
             end    == IF end1 < start THEN start ELSE end1
         IN  SubSeq(text, start + 1, end)

\* a file has been read and a location chosen (lines 656, 722)
InitSlice ==
    /\ spc = "call"
    /\ fileText \in Texts
    /\ scopeLoc \in Locations
    /\ code = ""
    /\ ImpactIdle
    /\ IndexerIdle
    /\ CodecIdle
    /\ ChunkerIdle
    /\ DecodeIdle
    /\ ReaderIdle
    /\ ConfigIdle
    /\ PoolIdle
    /\ DiscIdle
    /\ LoadIdle

\* line 749: code = sliceByRange(fileText, lineOffs, ...)
SliceChunk ==
    /\ spc = "call"
    /\ code' = sliceByRange(fileText, buildLineOffsets(fileText),
                            scopeLoc[1], scopeLoc[2], scopeLoc[3], scopeLoc[4])
    /\ spc' = "returned"
    /\ UNCHANGED <<fileText, scopeLoc>>
    /\ UNCHANGED notSlice

NextSlice == SliceChunk

SpecSlice == InitSlice /\ [][NextSlice]_vars

(***************************************************************************)
(* Vocabulary of the claims about sliceByRange: lines and columns counted  *)
(* on the text itself, without offsets.                                    *)
(***************************************************************************)
\* the 1-based line of the i-th character: one more than the newlines before it
LineOf(i) ==
    1 + Cardinality({j \in 1..(i - 1) : SubSeq(fileText, j, j) = "\n"})

\* the 1-based column of the i-th character: its distance from the last
\* newline before it, or from the start of the text
ColOf(i) ==
    LET nl == {j \in 1..(i - 1) : SubSeq(fileText, j, j) = "\n"}
    IN  IF nl = {} THEN i ELSE i - SetMax(nl)

\* the character at line l, column c exists
HasChar(l, c) == \E i \in 1..Len(fileText) : LineOf(i) = l /\ ColOf(i) = c

\* (l, c) is at or before (m, d)
NotAfter(l, c, m, d) == l < m \/ (l = m /\ c <= d)

\* the characters of the text whose position satisfies Keep, in order
Chars(Keep(_)) ==
    LET idx == {i \in 1..Len(fileText) : Keep(i)}
    IN  IF idx = {} THEN ""
        ELSE SubSeq(fileText, CHOOSE i \in idx : \A j \in idx : i <= j,
                              CHOOSE i \in idx : \A j \in idx : j <= i)

\* C15: for a location inside the text with endColumn > 0 (both corner
\* characters exist, the first not after the last), sliceByRange returns
\* the characters from (startLine, startColumn) to (endLine, endColumn), both
\* included; with endColumn = 0 (the first character exists and endLine is a
\* line of the text not before startLine) it returns the characters from
\* (startLine, startColumn) to the end of line endLine, its newline included.
C15_RangeSlicing ==
    spc = "returned" =>
        LET l1 == scopeLoc[1]
            c1 == scopeLoc[2]
            l2 == scopeLoc[3]
            c2 == scopeLoc[4]
            InRange(i) == /\ NotAfter(l1, c1, LineOf(i), ColOf(i))
                          /\ NotAfter(LineOf(i), ColOf(i), l2, c2)
            ToLineEnd(i) == /\ NotAfter(l1, c1, LineOf(i), ColOf(i))
                            /\ LineOf(i) <= l2
        IN  /\ (c2 > 0 /\ HasChar(l1, c1) /\ HasChar(l2, c2) /\ NotAfter(l1, c1, l2, c2))
                  => code = Chars(InRange)
            /\ (c2 = 0 /\ HasChar(l1, c1) /\ l1 <= l2
                       /\ l2 <= 1 + Cardinality({j \in 1..Len(fileText) :
                                                    SubSeq(fileText, j, j) = "\n"}))
                  => code = Chars(ToLineEnd)

\* a slice over two lines ending on a column, and one ending with endColumn 0
C15_Witness ==
    /\ spc = "returned"
    /\ fileText = "x\nxx"
    /\ scopeLoc \in {<<1, 1, 2, 1>>, <<1, 1, 1, 0>>}
    /\ code \in {"x\nx", "x\n"}

\* C16 (as stated): in Scenario E the code_chunk is "void y(){}", with no
\* trailing newline.
C16_ScenarioENoNewline ==
    (spc = "returned" /\ fileText = ScenarioEText /\ scopeLoc = ScenarioELoc)
        => code = "void y(){}"

\* C16 (amended): in Scenario E the code_chunk is the 11 characters from
\* column 1 to column 11 of line 2, which are "void y(){}" and the newline
\* that ends the line.
C16_ScenarioE ==
    (spc = "returned" /\ fileText = ScenarioEText /\ scopeLoc = ScenarioELoc)
        => /\ code = "void y(){}\n"
           /\ Len(code) = 11

\* Scenario E has been sliced
C16_Witness ==
    /\ spc = "returned"
    /\ fileText = ScenarioEText
    /\ scopeLoc = ScenarioELoc
    /\ code # ""


(***************************************************************************)
(* The name codec of the reader (core/src/SourcetrailDBReader.cpp):        *)
(* encodeSerialized (the lambda of findSymbolsByQualifiedName) and         *)
(* parseSerializedNameHierarchy, on strings.  Positions keep the 0-based   *)
(* values of the code.                                                     *)
(***************************************************************************)
\* most name elements of a generated hierarchy
MaxElems == 2
\* longest generated name
MaxName == 2

\* std::string::npos
npos == -1

META_DELIMITER == "\tm"
NAME_DELIMITER == "\tn"
PART_DELIMITER == "\ts"
SIGNATURE_DELIMITER == "\tp"

\* std::string::find: the first position >= from where pat occurs, or npos
Find(s, pat, from) ==
    LET at == {i \in from..(Len(s) - Len(pat)) : SubSeq(s, i + 1, i + Len(pat)) = pat}
    IN  IF at = {} THEN npos ELSE CHOOSE i \in at : \A j \in at : i <= j

\* std::string::substr(pos, n): at most n characters from pos, to the end at most
Substr(s, pos, n) ==
    SubSeq(s, pos + 1, IF pos + n > Len(s) THEN Len(s) ELSE pos + n)

\* s holds one of the four tab separators
HasSeparator(s) ==
    \E d \in {META_DELIMITER, NAME_DELIMITER, PART_DELIMITER, SIGNATURE_DELIMITER} :
        Find(s, d, 0) # npos

\* the characters names are made of: a letter, the second character of a
\* separator, and the tab
NameAlphabet == {"a", "s", "\t"}

\* the names: every string of at most MaxName characters without a separator
CodecNames ==
    {n \in {Concat(cs) : cs \in UNION {[1..k -> NameAlphabet] : k \in 0..MaxName}} :
        ~HasSeparator(n)}

\* the delimiters: those of the serialized names, the empty one, a tab
CodecDelims == {"::", ".", "", "\t"}

RECURSIVE encodeElems(_, _)
\* lines 354-360: name, PART_DELIM, SIG_DELIM, and NAME_DELIM unless last
encodeElems(elems, i) ==
    IF i > Len(elems) THEN ""
    ELSE elems[i] \o PART_DELIMITER \o SIGNATURE_DELIMITER
            \o (IF i + 1 <= Len(elems) THEN NAME_DELIMITER ELSE "")
            \o encodeElems(elems, i + 1)

\* lines 345-362
encodeSerialized(elems, delim) == delim \o META_DELIMITER \o encodeElems(elems, 1)

\* a NameElement
NameElement(name, prefix, postfix) ==
    [name |-> name, prefix |-> prefix, postfix |-> postfix]

RECURSIVE parseElements(_, _)
\* lines 58-91: the loop over the elements, from cursor
parseElements(s, cursor) ==
    IF ~(cursor < Len(s)) THEN <<>>
    ELSE LET spos == Find(s, PART_DELIMITER, cursor)
         IN  IF spos = npos THEN <<>>
             ELSE LET name  == Substr(s, cursor, spos - cursor)
                      spos2 == spos + Len(PART_DELIMITER)
                      ppos  == Find(s, SIGNATURE_DELIMITER, spos2)
                  IN  IF ppos = npos THEN <<>>
                      ELSE LET prefix == Substr(s, spos2, ppos - spos2)
                               ppos2  == ppos + Len(SIGNATURE_DELIMITER)
                               np     == Find(s, NAME_DELIMITER, ppos2)
                           IN  IF np = npos
                               THEN <<NameElement(name, prefix,
                                                  Substr(s, ppos2, Len(s) - ppos2))>>
                               ELSE <<NameElement(name, prefix,
                                                  Substr(s, ppos2, np - ppos2))>>
                                        \o parseElements(s, np + Len(NAME_DELIMITER))

\* the NameHierarchy of one name
SingleElement(delim, s) ==
    [nameDelimiter |-> delim,
     nameElements  |-> IF s = "" THEN <<>> ELSE <<NameElement(s, "", "")>>]

\* parseSerializedNameHierarchy that always answers the delimiter "::"
parseSerializedNameHierarchy_DefaultDelimiter(s) ==
    LET mpos == Find(s, META_DELIMITER, 0)
    IN  IF mpos = npos THEN SingleElement("::", s)
        ELSE LET elems == parseElements(s, mpos + Len(META_DELIMITER))
             IN  IF elems = <<>>
                 THEN SingleElement("::", s)
                 ELSE [nameDelimiter |-> "::", nameElements |-> elems]

\* parseSerializedNameHierarchy without the fallback of lines 93-97
parseSerializedNameHierarchy_NoFallback(s) ==
    LET mpos == Find(s, META_DELIMITER, 0)
    IN  IF mpos = npos THEN SingleElement("::", s)
        ELSE [nameDelimiter |-> Substr(s, 0, mpos),
              nameElements  |-> parseElements(s, mpos + Len(META_DELIMITER))]

\* lines 31-100
parseSerializedNameHierarchy(s) ==
    LET mpos == Find(s, META_DELIMITER, 0)
    IN  IF mpos = npos THEN SingleElement("::", s)
        ELSE LET delim == Substr(s, 0, mpos)
                 elems == parseElements(s, mpos + Len(META_DELIMITER))
             IN  IF elems = <<>>
                 THEN SingleElement(delim, s)
                 ELSE [nameDelimiter |-> delim, nameElements |-> elems]

\* a hierarchy to look up: its names and its delimiter
InitCodec ==
    /\ cpc = "encode"
    /\ hElems \in UNION {[1..k -> CodecNames] : k \in 0..MaxElems}
    /\ hDelim \in CodecDelims
    /\ serialized = ""
    /\ decoded = <<>>
    /\ ImpactIdle
    /\ IndexerIdle
    /\ SliceIdle
    /\ ChunkerIdle
    /\ DecodeIdle
    /\ ReaderIdle
    /\ ConfigIdle
    /\ PoolIdle
    /\ DiscIdle
    /\ LoadIdle

\* line 368: serializedGuess = encodeSerialized(parts, delim)
Encode ==
    /\ cpc = "encode"
    /\ serialized' = encodeSerialized(hElems, hDelim)
    /\ cpc' = "decode"
    /\ UNCHANGED <<hElems, hDelim, decoded>>
    /\ UNCHANGED notCodec

\* the serialized name is read back by parseSerializedNameHierarchy
Decode ==
    /\ cpc = "decode"
    /\ decoded' = parseSerializedNameHierarchy(serialized)
    /\ cpc' = "decoded"
    /\ UNCHANGED <<hElems, hDelim, serialized>>
    /\ UNCHANGED notCodec

NextCodec == Encode \/ Decode

SpecCodec == InitCodec /\ [][NextCodec]_vars

\* the hierarchy h: its names with empty prefixes and postfixes
HierarchyH ==
    [nameDelimiter |-> hDelim,
     nameElements  |-> [i \in 1..Len(hElems) |-> NameElement(hElems[i], "", "")]]

\* C20: for every hierarchy h with at least one element, empty prefixes and
\* postfixes, and names and delimiter without a tab separator, the hierarchy
\* decoded from encodeSerialized(h) is h: same delimiter, same elements.
C20_CodecRoundTrip ==
    (cpc = "decoded" /\ Len(hElems) >= 1 /\ ~HasSeparator(hDelim)
        /\ \A i \in 1..Len(hElems) : ~HasSeparator(hElems[i]))
        => decoded = HierarchyH

\* a hierarchy of two names, one of them ending in a tab, with the
\* delimiter ".", has been encoded and decoded
C20_Witness ==
    /\ cpc = "decoded"
    /\ hElems = <<"a\t", "s">>
    /\ hDelim = "."
    /\ serialized = ".\tma\t\ts\tp\tns\ts\tp"
    /\ Len(decoded.nameElements) = 2


(***************************************************************************)
(* The code chunker's main (examples/code_chunker/src/main.cpp): file      *)
(* selection, skip-existing, symbol loading and per-file emission.  Paths  *)
(* are strings and the path helpers work on their characters.  A chunk     *)
(* keeps the symbol id, the coordinates of the chosen location and the     *)
(* sliced code; the other fields of the JSON object (type, names,          *)
(* outgoing_references) are written from the symbol alone and are left     *)
(* out.                                                                    *)
(***************************************************************************)
\* most files in the database
MaxFiles == 2
\* most source locations of one symbol in one file
MaxLocs == 2

\* std::isalpha
Letters ==
    {"a", "b", "c", "d", "e", "f", "g", "h", "i", "j", "k", "l", "m",
     "n", "o", "p", "q", "r", "s", "t", "u", "v", "w", "x", "y", "z",
     "A", "B", "C", "D", "E", "F", "G", "H", "I", "J", "K", "L", "M",
     "N", "O", "P", "Q", "R", "S", "T", "U", "V", "W", "X", "Y", "Z"}

\* the i-th character of s, 0-based
CharAt(s, i) == SubSeq(s, i + 1, i + 1)

\* s.back()
Back(s) == SubSeq(s, Len(s), Len(s))

\* s.rfind(pre, 0) == 0
StartsWith(s, pre) == Len(s) >= Len(pre) /\ SubSeq(s, 1, Len(pre)) = pre

\* std::string::find_last_of(ch), or npos
FindLastOf(s, ch) ==
    LET at == {i \in 0..(Len(s) - 1) : CharAt(s, i) = ch}
    IN  IF at = {} THEN npos ELSE SetMax(at)

RECURSIVE unifySeparators(_)
\* line 125: std::replace(p.begin(), p.end(), '\\', '/')
unifySeparators(p) ==
    IF p = "" THEN ""
    ELSE (IF CharAt(p, 0) = "\\" THEN "/" ELSE CharAt(p, 0))
            \o unifySeparators(SubSeq(p, 2, Len(p)))

RECURSIVE trimTrailingSlashes(_)
\* lines 127-128
trimTrailingSlashes(p) ==
    IF Len(p) > 1 /\ Back(p) = "/"
    THEN trimTrailingSlashes(SubSeq(p, 1, Len(p) - 1))
    ELSE p

\* lines 122-130
normalizePath(p) == trimTrailingSlashes(unifySeparators(p))

\* lines 132-140
isAbsolutePath(p) ==
    IF p = "" THEN FALSE
    ELSE IF CharAt(p, 0) = "/" \/ CharAt(p, 0) = "\\" THEN TRUE
    ELSE Len(p) > 1 /\ CharAt(p, 0) \in Letters /\ CharAt(p, 1) = ":"

\* lines 142-155
joinPath(base, rel) ==
    IF base = "" THEN rel
    ELSE IF rel = "" THEN base
    ELSE LET a == normalizePath(base)
             b == normalizePath(rel)
         IN  IF isAbsolutePath(b) THEN b
             ELSE (IF a # "" /\ Back(a) # "/" THEN a \o "/" ELSE a) \o b

\* p with a '/' at its end
withSlash(p) == IF Back(p) # "/" THEN p \o "/" ELSE p

\* lines 158-183
mapDbPathToLocal(dbPath, indexedRootNorm, localRootNorm) ==
    LET dbNorm == normalizePath(dbPath)
        idx    == normalizePath(indexedRootNorm)
        loc    == normalizePath(localRootNorm)
    IN  IF idx # "" /\ dbNorm = idx THEN loc
        ELSE IF idx # "" /\ Len(dbNorm) > Len(withSlash(idx))
                         /\ StartsWith(dbNorm, withSlash(idx))
        THEN LET rel == Substr(dbNorm, Len(withSlash(idx)), Len(dbNorm))
             IN  IF loc # "" /\ Back(loc) # "/" THEN loc \o "/" \o rel
                 ELSE loc \o rel
        ELSE dbNorm

\* the last path segment of a normalized path (lines 200-201, 519-521, 667-669)
lastSegment(p) ==
    LET pos == FindLastOf(p, "/")
    IN  IF pos = npos THEN p ELSE Substr(p, pos + 1, Len(p))

\* lines 186-202
makeRelativeTo(absolutePath, base) ==
    LET abs == normalizePath(absolutePath)
        b   == normalizePath(base)
    IN  IF b = "" THEN abs
        ELSE IF abs = b THEN ""
        ELSE IF Len(abs) > Len(withSlash(b)) /\ StartsWith(abs, withSlash(b))
        THEN Substr(abs, Len(withSlash(b)), Len(abs))
        ELSE lastSegment(abs)

\* lines 418-419
rootNorm == normalizePath(ccfg.root_dir)
indexedNorm == normalizePath(ccfg.indexed_root)

\* lines 424-455: the DB-side prefix of one entry of paths_to_chunk
dbPrefOf(p) ==
    LET entry == normalizePath(p)
        entryIsPosixAbs == entry # "" /\ CharAt(entry, 0) = "/"
        indexedIsWinDrive ==
            /\ indexedNorm # ""
            /\ Len(indexedNorm) > 1
            /\ CharAt(indexedNorm, 0) \in Letters
            /\ CharAt(indexedNorm, 1) = ":"
        rootSlash == IF rootNorm # "" /\ Back(rootNorm) # "/"
                     THEN rootNorm \o "/" ELSE rootNorm
        dbPref ==
            IF isAbsolutePath(entry) /\ ~(entryIsPosixAbs /\ indexedIsWinDrive)
            THEN IF rootNorm # ""
                    /\ (entry = rootNorm
                        \/ (Len(entry) > Len(rootSlash) /\ StartsWith(entry, rootSlash)))
                 THEN LET rel == IF entry = rootNorm THEN ""
                                 ELSE Substr(entry, Len(rootSlash), Len(entry))
                      IN  IF indexedNorm = "" THEN entry
                          ELSE joinPath(indexedNorm, rel)
                 ELSE entry
            ELSE LET rel == IF entryIsPosixAbs /\ indexedIsWinDrive
                            THEN Substr(entry, 1, Len(entry)) ELSE entry
                 IN  IF indexedNorm # "" THEN joinPath(indexedNorm, rel)
                     ELSE joinPath(rootNorm, rel)
    IN  normalizePath(dbPref)

\* lines 416-458: one prefix for every non-empty entry
includePrefixesDB ==
    LET entries == SelectSeq(ccfg.paths_to_chunk, LAMBDA p : p # "")
    IN  [i \in 1..Len(entries) |-> dbPrefOf(entries[i])]

\* lines 467-487: the file matches one of the prefixes
matchesPrefix(f) ==
    LET fpath == normalizePath(f.filePath)
    IN  \E i \in 1..Len(includePrefixesDB) :
            LET pref == includePrefixesDB[i]
            IN  \/ fpath = pref
                \/ /\ pref # ""
                   /\ Len(fpath) > Len(withSlash(pref))
                   /\ StartsWith(fpath, withSlash(pref))

\* lines 506-525: the output path computed by the skip-existing filter
skipOutPath(f) ==
    LET rel1 == IF ccfg.indexed_root # ""
                THEN makeRelativeTo(f.filePath, ccfg.indexed_root) ELSE ""
        rel2 == IF rel1 # "" THEN rel1
                ELSE IF ccfg.root_dir # ""
                THEN makeRelativeTo(mapDbPathToLocal(f.filePath, indexedNorm, rootNorm),
                                    ccfg.root_dir)
                ELSE ""
        relForOut == IF rel2 # "" THEN rel2 ELSE lastSegment(normalizePath(f.filePath))
    IN  joinPath(normalizePath(ccfg.chunk_output_root), relForOut \o ".json")

\* readFileToBuffer: the path can be opened
readFileToBuffer(path) == path \in readable

\* what every readable source file holds
textOf(path) == ScenarioEText

\* lines 629-654: the path the text is read from, or "" when every attempt fails
readPath(f) ==
    LET localPath == mapDbPathToLocal(f.filePath, indexedNorm, rootNorm)
        alt == joinPath(rootNorm, makeRelativeTo(f.filePath, indexedNorm))
    IN  IF readFileToBuffer(localPath) THEN localPath
        ELSE IF readFileToBuffer(alt) THEN alt
        ELSE IF readFileToBuffer(f.filePath) THEN f.filePath
        ELSE ""

\* the file can be read by one of the three attempts
canRead(f) ==
    \/ readFileToBuffer(mapDbPathToLocal(f.filePath, indexedNorm, rootNorm))
    \/ readFileToBuffer(joinPath(rootNorm, makeRelativeTo(f.filePath, indexedNorm)))
    \/ readFileToBuffer(f.filePath)

\* lines 658-671: relForOut of the emission, from the path that was read
emitRelForOut(f, localPath) ==
    LET rel1 == IF ccfg.indexed_root # ""
                THEN makeRelativeTo(f.filePath, ccfg.indexed_root) ELSE ""
        rel2 == IF rel1 # "" THEN rel1
                ELSE IF ccfg.root_dir # ""
                THEN makeRelativeTo(localPath, ccfg.root_dir)
                ELSE ""
    IN  IF rel2 # "" THEN rel2 ELSE lastSegment(normalizePath(f.filePath))

\* line 673
emitOutPath(f, localPath) ==
    joinPath(normalizePath(ccfg.chunk_output_root), emitRelForOut(f, localPath) \o ".json")

\* a SourceLocation
SourceLocation(kind, l1, c1, l2, c2) ==
    [locationType |-> kind, startLine |-> l1, startColumn |-> c1,
     endLine |-> l2, endColumn |-> c2]

\* "no location": the nullptr of scopeLoc
NoLocation == SourceLocation("NONE", 0, 0, 0, 0)

\* the first location of the kind, or NoLocation
firstOfKind(locs, kind) ==
    LET at == {i \in 1..Len(locs) : locs[i].locationType = kind}
    IN  IF at = {} THEN NoLocation
        ELSE locs[CHOOSE i \in at : \A j \in at : i <= j]

\* choosing the first location that is a SCOPE or a TOKEN, whichever comes first
chooseLocation_FirstOfEither(locs) ==
    LET at == {i \in 1..Len(locs) : locs[i].locationType \in {"SCOPE", "TOKEN"}}
    IN  IF at = {} THEN NoLocation
        ELSE locs[CHOOSE i \in at : \A j \in at : i <= j]

\* lines 696-715: the first SCOPE, else the first TOKEN, else none
chooseLocation(locs) ==
    IF firstOfKind(locs, "SCOPE") # NoLocation THEN firstOfKind(locs, "SCOPE")
    ELSE firstOfKind(locs, "TOKEN")

\* the symbol ids and file ids of the database
ChunkSymbolIds == {1, 2}
FilePool == <<"/idx/src/a.cc", "src/a.cc", "/ext/x/a.cc", "/ext/y/a.cc">>
FileIds == 1..Len(FilePool)

\* reader.getSourceLocationsForSymbolInFile(symbolId, fileId)
getSourceLocationsForSymbolInFile(symbolId, fileId) == locTable[<<symbolId, fileId>>]

\* reader.getSymbolsInFiles({fileId}): the symbols with a location in the
\* file, each once, by ascending id
getSymbolsInFiles(fileId) ==
    SortUnique({s \in ChunkSymbolIds : getSourceLocationsForSymbolInFile(s, fileId) # <<>>})

\* lines 721-753: the chunk of a symbol at its chosen location
chunkOf(symId, loc, text) ==
    [id |-> symId,
     start_line |-> loc.startLine, start_column |-> loc.startColumn,
     end_line |-> loc.endLine, end_column |-> loc.endColumn,
     code_chunk |-> sliceByRange(text, buildLineOffsets(text),
                                 loc.startLine, loc.startColumn,
                                 loc.endLine, loc.endColumn)]

RECURSIVE chunksOf(_, _, _, _)
\* lines 692-754: the chunks of the symbols fileSyms[i..], in order
chunksOf(fileSyms, i, fileId, text) ==
    IF i > Len(fileSyms) THEN <<>>
    ELSE LET loc == chooseLocation(getSourceLocationsForSymbolInFile(fileSyms[i], fileId))
         IN  (IF loc = NoLocation THEN <<>>
              ELSE <<chunkOf(fileSyms[i], loc, text)>>)
                \o chunksOf(fileSyms, i + 1, fileId, text)

\* a file record of the database
File(i) == [id |-> i, filePath |-> FilePool[i]]

\* the file lists a database can hold
FileLists ==
    {[k \in 1..Len(s) |-> File(s[k])] : s \in DistinctSeqs(FileIds, MaxFiles)}

\* the configurations: with and without each root, with and without a filter
ChunkerConfigs ==
    [root_dir : {"", "/proj/"}, indexed_root : {"", "/idx"},
     chunk_output_root : {"out/"}, paths_to_chunk : {<<>>, <<"src">>}]

\* the local paths that may or may not be readable
LocalPool == {"/proj/src/a.cc", "src/a.cc", "/ext/x/a.cc", "/ext/y/a.cc"}

\* the output paths that may exist before the run
OutputPool == {"out/src/a.cc.json", "out/a.cc.json"}

\* the locations a symbol can have in a file
LocPool ==
    {SourceLocation("SCOPE", 2, 1, 2, 11), SourceLocation("SCOPE", 1, 1, 1, 6),
     SourceLocation("TOKEN", 2, 6, 2, 6), SourceLocation("QUALIFIER", 1, 1, 1, 3)}

\* the location lists: every order of at most MaxLocs locations
LocLists == UNION {[1..k -> LocPool] : k \in 0..MaxLocs}

\* every file holds symbol 1, with the SCOPE of Scenario E
DefaultLocs ==
    [p \in ChunkSymbolIds \X FileIds |->
        IF p[1] = 1 THEN <<SourceLocation("SCOPE", 2, 1, 2, 11)>> ELSE <<>>]

\* main has parsed its configuration and opened the database: either any
\* configuration, file list and file system with the default locations, or
\* one file under the indexed root with any locations of its two symbols
InitChunker ==
    /\ kpc = "select"
    /\ \/ /\ ccfg \in ChunkerConfigs
          /\ files \in FileLists
          /\ readable \in SUBSET LocalPool
          /\ existingOutputs \in SUBSET OutputPool
          /\ locTable = DefaultLocs
       \/ /\ ccfg = [root_dir |-> "/proj/", indexed_root |-> "/idx",
                     chunk_output_root |-> "out/", paths_to_chunk |-> <<>>]
          /\ files = <<File(1)>>
          /\ readable = {"/proj/src/a.cc"}
          /\ existingOutputs = {}
          /\ locTable \in {[p \in ChunkSymbolIds \X FileIds |->
                              IF p[2] = 1 THEN (IF p[1] = 1 THEN l1 ELSE l2)
                              ELSE DefaultLocs[p]] : l1 \in LocLists, l2 \in LocLists}
    /\ selectedFiles = <<>>
    /\ symbolsToVisitInFiles = <<>>
    /\ fileIdx = 0
    /\ written = <<>>
    /\ chunkerExit = -1
    /\ ImpactIdle
    /\ IndexerIdle
    /\ SliceIdle
    /\ CodecIdle
    /\ DecodeIdle
    /\ ReaderIdle
    /\ ConfigIdle
    /\ PoolIdle
    /\ DiscIdle
    /\ LoadIdle

\* lines 400-494: the files under one of the prefixes, or all files
SelectFiles ==
    /\ kpc = "select"
    /\ selectedFiles' = IF includePrefixesDB # <<>>
                        THEN SelectSeq(files, matchesPrefix)
                        ELSE files
    /\ kpc' = "skip"
    /\ UNCHANGED <<ccfg, files, locTable, readable, existingOutputs,
                   symbolsToVisitInFiles, fileIdx, written, chunkerExit>>
    /\ UNCHANGED notChunker

\* lines 496-536: drop the files whose output path can be opened
SkipExisting ==
    /\ kpc = "skip"
    /\ selectedFiles' = SelectSeq(selectedFiles,
                                  LAMBDA f : skipOutPath(f) \notin existingOutputs)
    /\ kpc' = "load"
    /\ UNCHANGED <<ccfg, files, locTable, readable, existingOutputs,
                   symbolsToVisitInFiles, fileIdx, written, chunkerExit>>
    /\ UNCHANGED notChunker

\* lines 569-581: the symbols of each selected file
LoadSymbols ==
    /\ kpc = "load"
    /\ symbolsToVisitInFiles' =
          [fid \in {selectedFiles[i].id : i \in 1..Len(selectedFiles)} |->
              getSymbolsInFiles(fid)]
    /\ kpc' = "emit"
    /\ UNCHANGED <<ccfg, files, locTable, readable, existingOutputs,
                   selectedFiles, fileIdx, written, chunkerExit>>
    /\ UNCHANGED notChunker

\* lines 626-779: one iteration of the emission loop.  The file is skipped
\* when it cannot be read, and when its parent directory cannot be created
\* or the output cannot be opened for writing (created = FALSE).
EmitFile ==
    /\ kpc = "emit"
    /\ fileIdx < Len(selectedFiles)
    /\ LET f == selectedFiles[fileIdx + 1]
       IN  \E created \in BOOLEAN :
             written' =
                IF canRead(f) /\ created
                THEN Append(written,
                        [path      |-> emitOutPath(f, readPath(f)),
                         file      |-> f,
                         file_path |-> emitRelForOut(f, readPath(f)),
                         chunks    |-> chunksOf(symbolsToVisitInFiles[f.id], 1, f.id,
                                                textOf(readPath(f)))])
                ELSE written
    /\ fileIdx' = fileIdx + 1
    /\ UNCHANGED <<kpc, ccfg, files, locTable, readable, existingOutputs,
                   selectedFiles, symbolsToVisitInFiles, chunkerExit>>
    /\ UNCHANGED notChunker

\* lines 781-782: reader.close(); return 0
FinishChunker ==
    /\ kpc = "emit"
    /\ fileIdx = Len(selectedFiles)
    /\ kpc' = "done"
    /\ chunkerExit' = 0
    /\ UNCHANGED <<ccfg, files, locTable, readable, existingOutputs,
                   selectedFiles, symbolsToVisitInFiles, fileIdx, written>>
    /\ UNCHANGED notChunker

NextChunker == SelectFiles \/ SkipExisting \/ LoadSymbols \/ EmitFile \/ FinishChunker

SpecChunker == InitChunker /\ [][NextChunker]_vars


(***************************************************************************)
(* Vocabulary of the claims about the chunker.                             *)
(***************************************************************************)
\* the coordinates written into a chunk
CoordsOfChunk(ch) == <<ch.start_line, ch.start_column, ch.end_line, ch.end_column>>

\* the coordinates of a location
CoordsOfLoc(loc) == <<loc.startLine, loc.startColumn, loc.endLine, loc.endColumn>>

\* the positions of the locations of the kind
PositionsOfKind(locs, kind) == {i \in 1..Len(locs) : locs[i].locationType = kind}

\* the least member of a non-empty set of numbers
Least(S) == CHOOSE i \in S : \A j \in S : i <= j

\* C17: in every written output, each symbol of the file that has a SCOPE
\* location in the file has exactly one chunk, at its first SCOPE location;
\* each symbol without a SCOPE but with a TOKEN location has exactly one
\* chunk, at its first TOKEN location; a symbol with neither has no chunk;
\* and no chunk belongs to anything but a symbol of the file.
C17_LocationSelection ==
    \A k \in 1..Len(written) :
        LET w    == written[k]
            syms == SeqToSet(getSymbolsInFiles(w.file.id))
        IN  /\ \A i \in 1..Len(w.chunks) : w.chunks[i].id \in syms
            /\ \A s \in syms :
                 LET locs    == getSourceLocationsForSymbolInFile(s, w.file.id)
                     scopes  == PositionsOfKind(locs, "SCOPE")
                     tokens  == PositionsOfKind(locs, "TOKEN")
                     entries == {i \in 1..Len(w.chunks) : w.chunks[i].id = s}
                 IN  IF scopes # {}
                     THEN /\ Cardinality(entries) = 1
                          /\ \A i \in entries :
                                CoordsOfChunk(w.chunks[i]) = CoordsOfLoc(locs[Least(scopes)])
                     ELSE IF tokens # {}
                     THEN /\ Cardinality(entries) = 1
                          /\ \A i \in entries :
                                CoordsOfChunk(w.chunks[i]) = CoordsOfLoc(locs[Least(tokens)])
                     ELSE entries = {}

\* a file was written whose first symbol has a TOKEN before its SCOPE and
\* whose second symbol has only a QUALIFIER: one chunk, at the SCOPE
C17_Witness ==
    /\ Len(written) = 1
    /\ locTable[<<1, 1>>] = <<SourceLocation("TOKEN", 2, 6, 2, 6),
                              SourceLocation("SCOPE", 2, 1, 2, 11)>>
    /\ locTable[<<2, 1>>] = <<SourceLocation("QUALIFIER", 1, 1, 1, 3)>>
    /\ Len(written[1].chunks) = 1
    /\ written[1].chunks[1].id = 1
    /\ CoordsOfChunk(written[1].chunks[1]) = <<2, 1, 2, 11>>

\* C18 (as stated): no output is written at a path that existed when the
\* chunker started, and the path each output is written at is the path the
\* skip-existing filter computed for its file.
C18_SkipExisting ==
    \A k \in 1..Len(written) :
        /\ written[k].path \notin existingOutputs
        /\ written[k].path = skipOutPath(written[k].file)

\* C19 (as stated): the outputs written in one run have distinct paths.
C19_OneOutputPerFile ==
    \A i, j \in 1..Len(written) :
        i # j => written[i].path # written[j].path


(***************************************************************************)
(* The decoder on inputs that are not the encoder's output: arbitrary      *)
(* strings, and well-formed serialized names (delimiter, META, then name   *)
(* PART prefix SIGNATURE postfix per element, NAME between elements) cut   *)
(* off at a separator.                                                     *)
(***************************************************************************)
\* longest arbitrary input
MaxRaw == 4
\* most elements of a truncated name
MaxSrcElems == 2

\* "no hierarchy": the input is an arbitrary string
NoHierarchy == [nameDelimiter |-> "", nameElements |-> <<>>]

\* the characters of the arbitrary inputs: a letter, the tab, and the second
\* characters of the four separators
RawAlphabet == {"a", "\t", "m", "s", "p", "n"}

\* the arbitrary inputs
RawInputs == {Concat(cs) : cs \in UNION {[1..k -> RawAlphabet] : k \in 0..MaxRaw}}

\* the elements of the names that are truncated
SrcElements == {NameElement(n, pre, post) : n \in {"a", "b"}, pre \in {"", "q"},
                                            post \in {"", "r"}}

\* the hierarchies whose serialized names are truncated
SrcHierarchies ==
    [nameDelimiter : {"::", "."},
     nameElements  : UNION {[1..k -> SrcElements] : k \in 1..MaxSrcElems}]

RECURSIVE elementTokens(_, _)
\* the tokens of the elements i.. of a serialized name
elementTokens(elems, i) ==
    IF i > Len(elems) THEN <<>>
    ELSE <<elems[i].name, PART_DELIMITER, elems[i].prefix,
           SIGNATURE_DELIMITER, elems[i].postfix>>
            \o (IF i < Len(elems) THEN <<NAME_DELIMITER>> ELSE <<>>)
            \o elementTokens(elems, i + 1)

\* the tokens of the serialized name of h, separators and texts in order
tokensOf(h) == <<h.nameDelimiter, META_DELIMITER>> \o elementTokens(h.nameElements, 1)

\* t is one of the four separators
IsSeparator(t) ==
    t \in {META_DELIMITER, NAME_DELIMITER, PART_DELIMITER, SIGNATURE_DELIMITER}

\* the cuts at a separator: the numbers of tokens kept such that the cut is
\* just before or just after a separator, and something is cut off
CutsOf(h) ==
    {c \in 0..(Len(tokensOf(h)) - 1) :
        \/ IsSeparator(tokensOf(h)[c + 1])
        \/ (c >= 1 /\ IsSeparator(tokensOf(h)[c]))}

\* the decoder is about to be applied to an arbitrary string, or to a
\* serialized name cut at a separator
InitDecode ==
    /\ dpc = "decode"
    /\ \/ /\ rawInput \in RawInputs
          /\ srcH = NoHierarchy
          /\ srcCut = 0
       \/ /\ srcH \in SrcHierarchies
          /\ srcCut \in CutsOf(srcH)
          /\ rawInput = Concat(SubSeq(tokensOf(srcH), 1, srcCut))
    /\ parsed = NoHierarchy
    /\ ImpactIdle
    /\ IndexerIdle
    /\ SliceIdle
    /\ CodecIdle
    /\ ChunkerIdle
    /\ ReaderIdle
    /\ ConfigIdle
    /\ PoolIdle
    /\ DiscIdle
    /\ LoadIdle

\* parseSerializedNameHierarchy(rawInput) returns
DecodeRaw ==
    /\ dpc = "decode"
    /\ parsed' = parseSerializedNameHierarchy(rawInput)
    /\ dpc' = "decoded"
    /\ UNCHANGED <<rawInput, srcH, srcCut>>
    /\ UNCHANGED notDecode

NextDecode == DecodeRaw

SpecDecode == InitDecode /\ [][NextDecode]_vars

\* C21: the decoder returns on every serialized name cut at a separator.
\* With n the number of elements whose name, PART, prefix and SIGNATURE lie
\* before the cut: if n >= 1 the result is those n elements in order, with
\* the names and prefixes of the original and the postfix as far as it lies
\* before the cut; if n = 0 the result is one element whose name is the
\* whole input.
C21_TruncatedDecode ==
    (dpc = "decoded" /\ srcH # NoHierarchy) =>
        LET elems == srcH.nameElements
            n     == IF srcCut \div 6 > Len(elems) THEN Len(elems) ELSE srcCut \div 6
        IN  IF n = 0
            THEN parsed.nameElements = <<NameElement(rawInput, "", "")>>
            ELSE parsed.nameElements =
                    [i \in 1..n |->
                        NameElement(elems[i].name, elems[i].prefix,
                                    IF 6 * i + 1 <= srcCut THEN elems[i].postfix ELSE "")]

\* a name of two elements cut after the PART separator of its second
\* element: the first element is returned
C21_Witness ==
    /\ dpc = "decoded"
    /\ srcH # NoHierarchy
    /\ Len(srcH.nameElements) = 2
    /\ srcCut = 10
    /\ rawInput = "::\tma\tsq\tpr\tnb\ts"
    /\ parsed.nameElements = <<NameElement("a", "q", "r")>>

\* C22 (as stated): every hierarchy the decoder returns has at least one
\* element.
C22_NonEmptyElements ==
    dpc = "decoded" => Len(parsed.nameElements) >= 1


(***************************************************************************)
(* The reader object (core/src/SourcetrailDBReader.cpp): open, close,      *)
(* isOpen and the queries.  A Symbol is returned as its id.  The storage   *)
(* layer (DatabaseStorage) is modelled by what its declarations and the    *)
(* specification say: openDatabase, isCompatible, the exact and LIKE       *)
(* lookups on serialized_name, and the symbol table.                       *)
(***************************************************************************)
\* most nodes of the compatible database
MaxDbNodes == 3

\* m_databaseStorage == nullptr
NoStorage == "nullptr"

\* the database files a reader can be asked to open
GoodPath == "good.srctrldb"
OldPath == "old.srctrldb"
MissingPath == "missing.srctrldb"
CorruptPath == "corrupt.srctrldb"
DbPaths == {GoodPath, OldPath, MissingPath, CorruptPath}

\* DatabaseStorage::openDatabase: a storage object, nullptr for a file that
\* cannot be opened, or an exception
openDatabase(path) ==
    IF path \in {GoodPath, OldPath} THEN [outcome |-> "storage", storage |-> path]
    ELSE IF path = MissingPath THEN [outcome |-> "storage", storage |-> NoStorage]
    ELSE [outcome |-> "exception", storage |-> NoStorage]

\* DatabaseStorage::isCompatible: the stored version is the supported one
isCompatible(storage) == storage = GoodPath

\* a row of the node table
StorageNode(id, serializedName, inSymbolTable) ==
    [id |-> id, serializedName |-> serializedName, inSymbolTable |-> inSymbolTable]

\* the nodes a database can hold: a::b plain, a::b with prefix and postfix,
\* b alone with "::", a.b, b alone with ".", and c::d that is not a symbol
NodePool ==
    { StorageNode(1, "::\tma\ts\tp\tnb\ts\tp", TRUE),
      StorageNode(2, "::\tma\ts\tp\tnb\tsv\tp()", TRUE),
      StorageNode(3, "::\tmb\ts\tp", TRUE),
      StorageNode(4, ".\tma\ts\tp\tnb\ts\tp", TRUE),
      StorageNode(5, ".\tmb\ts\tp", TRUE),
      StorageNode(6, "::\tmc\ts\tp\tnd\ts\tp", FALSE) }

\* the node tables: at most MaxDbNodes nodes of the pool, by ascending id
NodeTables ==
    {t \in DistinctSeqs(NodePool, MaxDbNodes) :
        \A i, j \in 1..Len(t) : i < j => t[i].id < t[j].id}

\* the nodes of the incompatible database
OldNodes == <<StorageNode(1, "::\tma\ts\tp\tnb\ts\tp", TRUE)>>

\* the file table of both databases
FileRows == <<[id |-> 1, filePath |-> "/idx/src/a.cc"]>>

\* the node table behind a storage object
nodesOf(storage) == IF storage = GoodPath THEN dbNodes ELSE OldNodes

\* DatabaseStorage::getNodesBySerializedNameExact
getNodesBySerializedNameExact(storage, serializedName) ==
    SelectSeq(nodesOf(storage), LAMBDA n : n.serializedName = serializedName)

\* DatabaseStorage::findSymbolNodesBySerializedNameLike("%" + text + "%"):
\* the nodes of the symbol table whose serialized name contains text
findSymbolNodesBySerializedNameLike(storage, text) ==
    SelectSeq(nodesOf(storage),
              LAMBDA n : n.inSymbolTable /\ Find(n.serializedName, text, 0) # npos)

\* DatabaseStorage::getAllSymbolNodes
getAllSymbolNodes(storage) == SelectSeq(nodesOf(storage), LAMBDA n : n.inSymbolTable)

\* DatabaseStorage::getNodeById: the node, or a node with id 0
getNodeById(storage, id) ==
    LET hit == SelectSeq(nodesOf(storage), LAMBDA n : n.id = id)
    IN  IF hit = <<>> THEN StorageNode(0, "", FALSE) ELSE hit[1]

\* a reader that is open whatever its storage pointer
isOpen_Always == TRUE

\* line 200-203
isOpen == m_databaseStorage # NoStorage

\* the fully qualified name built from a node's decoded hierarchy
\* (lines 377, 392): names joined by the hierarchy's delimiter
fqnOfNode(n) ==
    LET h == parseSerializedNameHierarchy(n.serializedName)
    IN  JoinNames([i \in 1..Len(h.nameElements) |-> h.nameElements[i].name],
                  h.nameDelimiter, Len(h.nameElements))

RECURSIVE splitParts(_, _)
\* lines 335-340: the parts of the pattern between "::"
splitParts(p, i) ==
    IF ~(i < Len(p)) THEN <<>>
    ELSE LET pos == Find(p, "::", i)
         IN  IF pos = npos THEN <<Substr(p, i, Len(p))>>
             ELSE <<Substr(p, i, pos - i)>> \o splitParts(p, pos + 2)

\* line 367: "::" when the pattern holds one, "." otherwise
guessDelimiter(p) == IF Find(p, "::", 0) # npos THEN "::" ELSE "."

\* line 368
serializedGuessOf(p) == encodeSerialized(splitParts(p, 0), guessDelimiter(p))

RECURSIVE idsOnce(_, _)
\* the ids of the nodes, each id once (addedIds, lines 370-374)
idsOnce(ns, seen) ==
    IF ns = <<>> THEN <<>>
    ELSE IF Head(ns).id \in seen THEN idsOnce(Tail(ns), seen)
    ELSE <<Head(ns).id>> \o idsOnce(Tail(ns), seen \cup {Head(ns).id})

\* lines 365-379: the symbols found by the exact serialized lookup
fastPathMatches(storage, p) ==
    idsOnce(SelectSeq(getNodesBySerializedNameExact(storage, serializedGuessOf(p)),
                      LAMBDA n : n.inSymbolTable /\ fqnOfNode(n) = p), {})

\* lines 397-403: fqn ends with p, and p starts at a delimiter boundary
suffixOnBoundary(fqn, p, delim) ==
    /\ Len(fqn) > Len(p)
    /\ Substr(fqn, Len(fqn) - Len(p), Len(p)) = p
    /\ LET prefixLen == Len(fqn) - Len(p)
       IN  \/ prefixLen = 0
           \/ /\ prefixLen >= Len(delim)
              /\ Substr(fqn, prefixLen - Len(delim), Len(delim)) = delim

\* lines 385-406: the LIKE scan on the tail element and its filter
likePathMatches(storage, p, exactMatch) ==
    LET parts == splitParts(p, 0)
        tail  == parts[Len(parts)]
        Match(n) ==
            \/ fqnOfNode(n) = p
            \/ /\ ~exactMatch
               /\ suffixOnBoundary(fqnOfNode(n), p,
                                   parseSerializedNameHierarchy(n.serializedName).nameDelimiter)
        hits  == SelectSeq(findSymbolNodesBySerializedNameLike(storage, tail), Match)
    IN  [i \in 1..Len(hits) |-> hits[i].id]

\* the call runs the LIKE scan: not an exact call answered by the fast path
usesLikeScan(storage, p, exactMatch) ==
    ~(exactMatch /\ fastPathMatches(storage, p) # <<>>)

\* lines 330-409 on an open reader: the ids of the matching symbols
qualifiedMatches(storage, p, exactMatch) ==
    IF splitParts(p, 0) = <<>> THEN <<>>
    ELSE IF ~usesLikeScan(storage, p, exactMatch) THEN fastPathMatches(storage, p)
    ELSE likePathMatches(storage, p, exactMatch)

\* the record of a call: the method, its arguments, the boolean (the value
\* returned by open and close, the exactMatch argument of a qualified lookup)
\* and the ids it returned, whether a qualified lookup ran the LIKE scan,
\* and whether the reader was open when the call was made
Call(op, arg, num, ok, ids, likeScan) ==
    [op |-> op, arg |-> arg, num |-> num, ok |-> ok, ids |-> ids, likeScan |-> likeScan,
     wasOpen |-> isOpen]

\* the queries that are modelled only by the rows they read
OtherQueries ==
    {"getAllSymbolsBrief", "findSymbolsByName", "getAllReferences", "getAllEdgesBrief",
     "getReferencesToSymbol", "getReferencesFromSymbol", "getReferencesFromSymbolWithKind",
     "getReferencesByType", "getAllFiles", "findFilesByPath",
     "getSourceLocationsForSymbol", "getSourceLocationsInFile", "getDatabaseStats"}

\* every query method of the reader
QueryOps ==
    OtherQueries \cup {"getAllSymbols", "getSymbolById", "getFileById",
                       "findSymbolsByQualifiedName"}

\* the patterns looked up, and the ids asked for
QueryPatterns == {"a::b", "b", "a.b", "c::d", ""}
QueryIds == {1, 6, 7}

\* the message of a query on a closed reader
NotOpenError == "Database is not open"

\* a reader has been constructed (lines 132-134); the compatible database
\* on disk holds some node table
InitReader ==
    /\ m_databaseStorage = NoStorage
    /\ m_lastError = ""
    /\ lastCall = Call("construct", "", 0, TRUE, <<>>, FALSE)
    /\ dbNodes \in NodeTables
    /\ ImpactIdle
    /\ IndexerIdle
    /\ SliceIdle
    /\ CodecIdle
    /\ ChunkerIdle
    /\ DecodeIdle
    /\ ConfigIdle
    /\ PoolIdle
    /\ DiscIdle
    /\ LoadIdle

\* lines 156-182
OpenReader ==
    \E path \in DbPaths :
        LET r == openDatabase(path)
        IN  /\ m_databaseStorage' =
                  IF r.outcome = "exception" THEN m_databaseStorage ELSE r.storage
            /\ m_lastError' =
                  IF r.outcome = "exception" THEN "Exception while opening database"
                  ELSE IF r.storage = NoStorage THEN "Failed to open database"
                  ELSE IF ~isCompatible(r.storage)
                  THEN "Database version is not compatible with this SourcetrailDB version"
                  ELSE ""
            /\ lastCall' = Call("open", path, 0,
                                r.outcome = "storage" /\ r.storage # NoStorage
                                    /\ isCompatible(r.storage),
                                <<>>, FALSE)
            /\ UNCHANGED dbNodes
            /\ UNCHANGED notReader

\* lines 184-198
CloseReader ==
    /\ m_databaseStorage' = NoStorage
    /\ m_lastError' = ""
    /\ lastCall' = Call("close", "", 0, TRUE, <<>>, FALSE)
    /\ UNCHANGED dbNodes
    /\ UNCHANGED notReader

\* lines 205-219
GetAllSymbols ==
    /\ m_lastError' = IF isOpen THEN "" ELSE NotOpenError
    /\ lastCall' =
          LET ns == getAllSymbolNodes(m_databaseStorage)
          IN  Call("getAllSymbols", "", 0, TRUE,
                   IF isOpen THEN [i \in 1..Len(ns) |-> ns[i].id] ELSE <<>>, FALSE)
    /\ UNCHANGED <<m_databaseStorage, dbNodes>>
    /\ UNCHANGED notReader

\* lines 242-266
GetSymbolById ==
    \E symbolId \in QueryIds :
        LET n == getNodeById(m_databaseStorage, symbolId)
        IN  /\ m_lastError' =
                  IF ~isOpen THEN NotOpenError
                  ELSE IF n.id = 0 THEN "Symbol with ID not found"
                  ELSE IF ~n.inSymbolTable THEN "Id is not a symbol"
                  ELSE ""
            /\ lastCall' = Call("getSymbolById", "", symbolId, TRUE,
                                IF isOpen /\ n.id # 0 /\ n.inSymbolTable
                                THEN <<n.id>> ELSE <<0>>, FALSE)
            /\ UNCHANGED <<m_databaseStorage, dbNodes>>
            /\ UNCHANGED notReader

\* lines 536-568
GetFileById ==
    \E fileId \in QueryIds :
        LET hit == SelectSeq(FileRows, LAMBDA f : f.id = fileId)
        IN  /\ m_lastError' =
                  IF ~isOpen THEN NotOpenError
                  ELSE IF hit = <<>> THEN "File with ID not found"
                  ELSE ""
            /\ lastCall' = Call("getFileById", "", fileId, TRUE,
                                IF isOpen /\ hit # <<>> THEN <<hit[1].id>> ELSE <<0>>,
                                FALSE)
            /\ UNCHANGED <<m_databaseStorage, dbNodes>>
            /\ UNCHANGED notReader

\* lines 319-410
FindSymbolsByQualifiedName ==
    \E p \in QueryPatterns, exactMatch \in BOOLEAN :
        /\ m_lastError' = IF isOpen THEN "" ELSE NotOpenError
        /\ lastCall' =
              Call("findSymbolsByQualifiedName", p, 0, exactMatch,
                   IF isOpen THEN qualifiedMatches(m_databaseStorage, p, exactMatch)
                   ELSE <<>>,
                   isOpen /\ splitParts(p, 0) # <<>>
                          /\ usesLikeScan(m_databaseStorage, p, exactMatch))
        /\ UNCHANGED <<m_databaseStorage, dbNodes>>
        /\ UNCHANGED notReader

\* the other queries: the guard of their first lines, and on an open reader
\* the rows they read, given as the ids of the node table
OtherQuery ==
    \E q \in OtherQueries :
        /\ m_lastError' = IF isOpen THEN "" ELSE NotOpenError
        /\ lastCall' =
              LET ns == nodesOf(m_databaseStorage)
              IN  Call(q, "", 0, TRUE,
                       IF isOpen THEN [i \in 1..Len(ns) |-> ns[i].id] ELSE <<>>, FALSE)
        /\ UNCHANGED <<m_databaseStorage, dbNodes>>
        /\ UNCHANGED notReader

NextReader ==
    \/ OpenReader
    \/ CloseReader
    \/ GetAllSymbols
    \/ GetSymbolById
    \/ GetFileById
    \/ FindSymbolsByQualifiedName
    \/ OtherQuery

SpecReader == InitReader /\ [][NextReader]_vars

\* the symbols of a storage whose name elements have empty prefix and postfix
PlainSymbols(storage) ==
    {n \in SeqToSet(nodesOf(storage)) :
        /\ n.inSymbolTable
        /\ \A e \in SeqToSet(parseSerializedNameHierarchy(n.serializedName).nameElements) :
              e.prefix = "" /\ e.postfix = ""}

\* the last call was an exact qualified lookup on an open reader
ExactLookupDone ==
    /\ lastCall.op = "findSymbolsByQualifiedName"
    /\ lastCall.ok
    /\ lastCall.wasOpen

\* C23: exact-name fast path (Scenario F): for every symbol with empty
\* prefixes and postfixes, an exact lookup of its qualified name re-encodes
\* the stored serialized name byte for byte and returns the symbol from the
\* exact serialized lookup, without the LIKE scan; single-element names and
\* every delimiter included.
C23_ExactFastPath ==
    ExactLookupDone =>
        \A n \in PlainSymbols(m_databaseStorage) :
            fqnOfNode(n) = lastCall.arg =>
                /\ serializedGuessOf(lastCall.arg) = n.serializedName
                /\ n.id \in SeqToSet(lastCall.ids)
                /\ ~lastCall.likeScan

\* C24: an exact qualified lookup returns exactly the symbols whose fully
\* qualified name equals the pattern: each returned symbol has that name and
\* each symbol with that name is returned, with or without prefix or
\* postfix, whether or not the exact serialized lookup found something.
C24_ExactMatchComplete ==
    ExactLookupDone =>
        SeqToSet(lastCall.ids) =
            {n.id : n \in {x \in SeqToSet(nodesOf(m_databaseStorage)) :
                              x.inSymbolTable /\ fqnOfNode(x) = lastCall.arg}}

\* the result of a query on a reader that is not open
emptyResult(op) == IF op \in {"getSymbolById", "getFileById"} THEN <<0>> ELSE <<>>

\* C25: a rejected open leaves no usable handle: when open() has returned
\* false (missing file, exception, incompatible version) isOpen() is false,
\* and the next query reports "Database is not open" and reads nothing.
C25_RejectedOpenUnusable ==
    [][(lastCall.op = "open" /\ ~lastCall.ok) =>
          /\ ~isOpen
          /\ lastCall'.op \in QueryOps =>
                /\ m_lastError' = NotOpenError
                /\ lastCall'.ids = emptyResult(lastCall'.op)]_vars

\* after close() the reader is closed and close() returned true
ClosedAfterClose == lastCall'.op = "close" => ~isOpen' /\ lastCall'.ok

\* a query on a closed reader returns the empty result and sets the error
ClosedQueryIsEmpty ==
    (~isOpen /\ lastCall'.op \in QueryOps) =>
        /\ lastCall'.ids = emptyResult(lastCall'.op)
        /\ m_lastError' = NotOpenError

\* a query leaves the reader open or closed as it was
QueryKeepsOpenness == lastCall'.op \in QueryOps => isOpen' = isOpen

\* C26 (as stated): reader lifecycle: after close() isOpen() is false and
\* every query returns an empty result (id 0 for getSymbolById and
\* getFileById) with last error "Database is not open"; close() on a closed
\* reader returns true and changes nothing; queries never change whether the
\* reader is open.
C26_LifecycleChangesNothing ==
    [][/\ ClosedAfterClose
       /\ ClosedQueryIsEmpty
       /\ QueryKeepsOpenness
       /\ (~isOpen /\ lastCall'.op = "close") =>
             /\ lastCall'.ok
             /\ m_databaseStorage' = m_databaseStorage
             /\ m_lastError' = m_lastError]_vars

\* C26 (amended): reader lifecycle: after close() isOpen() is false and
\* every query returns an empty result (id 0 for getSymbolById and
\* getFileById) with last error "Database is not open"; close() on a closed
\* reader returns true, leaves it closed and clears the last error; queries
\* never change whether the reader is open.
C26_Lifecycle ==
    [][/\ ClosedAfterClose
       /\ ClosedQueryIsEmpty
       /\ QueryKeepsOpenness
       /\ (~isOpen /\ lastCall'.op = "close") =>
             /\ lastCall'.ok
             /\ ~isOpen'
             /\ m_lastError' = ""]_vars

\* close() has been called on a reader that was already closed: it returned
\* true, the reader is closed and the last error is empty
C26_Witness ==
    /\ lastCall.op = "close"
    /\ ~lastCall.wasOpen
    /\ lastCall.ok
    /\ m_lastError = ""
    /\ ~isOpen


(***************************************************************************)
(* The impact analyzer's config file (dependency_analyzer/src/main.cpp):   *)
(* parseConfigFile and the checks main makes before it opens the database. *)
(* The run then goes on with the resolution of the start symbols.          *)
(***************************************************************************)
\* most lines of the [start_symbols] section of a config file
MaxStartLines == 2

\* std::isspace
isspace(c) == c \in {" ", "\t", "\n", "\r"}

RECURSIVE trimLeft(_)
\* line 120: skip the leading white space
trimLeft(s) ==
    IF s # "" /\ isspace(CharAt(s, 0)) THEN trimLeft(Substr(s, 1, Len(s))) ELSE s

RECURSIVE trimRight(_)
\* line 121: skip the trailing white space
trimRight(s) ==
    IF s # "" /\ isspace(CharAt(s, Len(s) - 1))
    THEN trimRight(Substr(s, 0, Len(s) - 1)) ELSE s

\* lines 117-123
trimCopy(s) == trimRight(trimLeft(s))

LowerChars == "abcdefghijklmnopqrstuvwxyz"
UpperChars == "ABCDEFGHIJKLMNOPQRSTUVWXYZ"

\* std::toupper and std::tolower on one character
toupper(c) ==
    LET i == Find(LowerChars, c, 0) IN IF i = npos THEN c ELSE CharAt(UpperChars, i)
tolower(c) ==
    LET i == Find(UpperChars, c, 0) IN IF i = npos THEN c ELSE CharAt(LowerChars, i)

RECURSIVE upperOf(_)
\* lines 88-93
upperOf(s) ==
    IF s = "" THEN "" ELSE toupper(CharAt(s, 0)) \o upperOf(Substr(s, 1, Len(s)))

RECURSIVE lowerOf(_)
\* lines 197-199
lowerOf(s) ==
    IF s = "" THEN "" ELSE tolower(CharAt(s, 0)) \o lowerOf(Substr(s, 1, Len(s)))

\* the enum identifiers parseSymbolKind accepts (lines 95-113)
SymbolKindNames ==
    {"TYPE", "BUILTIN_TYPE", "MODULE", "NAMESPACE", "PACKAGE", "STRUCT", "CLASS",
     "INTERFACE", "ANNOTATION", "GLOBAL_VARIABLE", "FIELD", "FUNCTION", "METHOD",
     "ENUM", "ENUM_CONSTANT", "TYPEDEF", "TYPE_PARAMETER", "MACRO", "UNION"}

\* lines 86-116: the kind named by the text, whatever its case
parseSymbolKind(in) ==
    LET s == upperOf(in)
    IN  IF s \in SymbolKindNames THEN [ok |-> TRUE, out |-> s]
        ELSE [ok |-> FALSE, out |-> "CLASS"]

\* lines 177-189: the text before the first comma, trimmed
kindPartOf(t) ==
    LET commaPos == Find(t, ",", 0)
    IN  IF commaPos = npos THEN "" ELSE trimCopy(Substr(t, 0, commaPos))

\* lines 177-189: the text after the first comma, trimmed, or the whole line
patternPartOf(t) ==
    LET commaPos == Find(t, ",", 0)
    IN  IF commaPos = npos THEN t ELSE trimCopy(Substr(t, commaPos + 1, Len(t)))

\* lines 195-203: the text after "kind=" (any case), trimmed, or the kind part
rhsTrimOf(t) ==
    LET kindPart == kindPartOf(t)
        pos      == Find(lowerOf(kindPart), "kind=", 0)
    IN  trimCopy(IF pos = npos THEN kindPart
                 ELSE trimCopy(Substr(kindPart, pos + 5, Len(kindPart))))

\* lines 192-216: the line names a kind that parseSymbolKind does not know
\* (the branch that prints "[config] Warning: unknown kind")
unknownKind(t) ==
    /\ kindPartOf(t) # ""
    /\ rhsTrimOf(t) # ""
    /\ rhsTrimOf(t) # "*"
    /\ ~parseSymbolKind(rhsTrimOf(t)).ok

\* lines 173-224: the StartSymbolSpec of a line of [start_symbols]
parseStartLine(t) ==
    LET known == /\ kindPartOf(t) # ""
                 /\ rhsTrimOf(t) # ""
                 /\ rhsTrimOf(t) # "*"
                 /\ parseSymbolKind(rhsTrimOf(t)).ok
    IN  [anyKind |-> ~known,
         kind    |-> IF known THEN parseSymbolKind(rhsTrimOf(t)).out ELSE "CLASS",
         pattern |-> patternPartOf(t)]

\* lines 157-161: the section a header line opens
sectionOf(sec) ==
    IF sec \in {"test_namespace", "start_symbols", "exclude_symbols"} THEN sec ELSE "NONE"

\* lines 165-233: a line of a section, added to the config
applyLine(section, t, c) ==
    IF section = "test_namespace"
    THEN IF c.testNamespace = "" THEN [c EXCEPT !.testNamespace = t] ELSE c
    ELSE IF section = "start_symbols"
    THEN IF parseStartLine(t).pattern # ""
         THEN [c EXCEPT !.startSymbols = Append(@, parseStartLine(t))]
         ELSE c
    ELSE IF section = "exclude_symbols"
    THEN [c EXCEPT !.excludeSymbols = @ \cup {t}]
    ELSE c

\* ConfigData as constructed (lines 132-136)
EmptyConfig == [testNamespace |-> "", startSymbols |-> <<>>, excludeSymbols |-> {}]

RECURSIVE parseLines(_, _, _)
\* lines 147-235: the loop over the lines of the file
parseLines(lines, section, c) ==
    IF lines = <<>> THEN c
    ELSE LET line == Head(lines)
             noCr == IF line # "" /\ CharAt(line, Len(line) - 1) = "\r"
                     THEN Substr(line, 0, Len(line) - 1) ELSE line
             t    == trimCopy(noCr)
         IN  IF t = "" \/ CharAt(t, 0) \in {"#", ";"}
             THEN parseLines(Tail(lines), section, c)
             ELSE IF Len(t) >= 3 /\ CharAt(t, 0) = "[" /\ CharAt(t, Len(t) - 1) = "]"
             THEN parseLines(Tail(lines), sectionOf(Substr(t, 1, Len(t) - 2)), c)
             ELSE parseLines(Tail(lines), section, applyLine(section, t, c))

\* lines 138-237, for a file that can be read
parseConfigFile(lines) == parseLines(lines, "NONE", EmptyConfig)

\* lines of [start_symbols]: kinds known, unknown, in lower case, "*", none,
\* without "kind=", and a line without pattern
StartLinePool ==
    {"kind=METHOD, MyNS::Foo::bar", "kind=METHODD, MyNS::Foo::bar",
     "kind=*, MyNS::Foo::bar", "MyNS::Foo::bar", " kind=class , MyNS::Foo::bar\r",
     "METHOD, I::run", "kind=METHOD,", "kind=METHODD, NoSuch::name"}

\* the [test_namespace] sections: one line, a comment only, or no section
NamespaceSections ==
    {<<"[test_namespace]", "UnitTests">>, <<"[test_namespace]", "# none">>, <<>>}

\* the [exclude_symbols] sections
ExcludeSections == {<<>>, <<"[exclude_symbols]", "FooTests">>}

\* the config files of a run
ConfigFiles ==
    {ns \o <<"[start_symbols]">> \o st \o ex :
        ns \in NamespaceSections,
        st \in DistinctSeqs(StartLinePool, MaxStartLines),
        ex \in ExcludeSections}

\* main is entered with a config file and a database
InitConfig ==
    /\ pc = "parse"
    /\ configFile \in ConfigFiles
    /\ cfg = EmptyConfig
    /\ briefEdges \in DistinctSeqs(CyclePool, 1) \cup {ScenarioBEdges}
    /\ allStartSymbols = <<>>
    /\ startSymbolMode = <<>>
    /\ incomingAdj = <<>>
    /\ outgoingAdj = <<>>
    /\ queue = <<>>
    /\ head = 0
    /\ visited = {}
    /\ foundTestSymbols = <<>>
    /\ foundTestSymbolsSet = {}
    /\ foundTestFqnsSet = {}
    /\ hitPaths = <<>>
    /\ queueVia = <<>>
    /\ limitWarning = FALSE
    /\ exitCode = -1
    /\ IndexerIdle
    /\ SliceIdle
    /\ CodecIdle
    /\ ChunkerIdle
    /\ DecodeIdle
    /\ ReaderIdle
    /\ PoolIdle
    /\ DiscIdle
    /\ LoadIdle

\* lines 248-262: parse the config; an empty test namespace or an empty list
\* of start symbols ends the run with 1
ParseConfig ==
    /\ pc = "parse"
    /\ cfg' = parseConfigFile(configFile)
    /\ IF cfg'.testNamespace = "" \/ cfg'.startSymbols = <<>>
       THEN pc' = "exit" /\ exitCode' = 1
       ELSE pc' = "resolve" /\ UNCHANGED exitCode
    /\ UNCHANGED <<briefEdges, allStartSymbols, startSymbolMode, incomingAdj,
                   outgoingAdj, queue, head, visited, foundTestSymbols,
                   foundTestSymbolsSet, foundTestFqnsSet, hitPaths, queueVia,
                   limitWarning>>
    /\ UNCHANGED notImpact

NextConfig == ParseConfig \/ ResolveStart \/ LoadGraph \/ BfsStep \/ BfsDone

SpecConfig == InitConfig /\ [][NextConfig]_vars

\* the run is over: main has returned
RunOver == pc \in {"exit", "done"}

\* C27: a config whose [start_symbols] section has a line naming an unknown
\* kind (kind=METHODD) is a config error: the run ends with a non-zero exit
\* code and nothing is traversed.
C27_UnknownKindIsConfigError ==
    (RunOver /\ \E i \in DOMAIN configFile : unknownKind(trimCopy(configFile[i]))) =>
        /\ exitCode > 0
        /\ visited = {}
        /\ queue = <<>>

\* C28: an unresolved start is fatal: when some start spec resolves to no
\* symbol (after its kind filter) the impact analyzer ends with exit code 1
\* without traversing, even when other specs resolved.
C28_UnresolvedStartFatal ==
    (RunOver /\ \E i \in DOMAIN cfg.startSymbols :
                    startSymbolsForSpec(cfg.startSymbols[i]) = <<>>) =>
        /\ exitCode = 1
        /\ visited = {}
        /\ queue = <<>>


(***************************************************************************)
(* The worker pools of the test indexer (test_indexer/src/main.cpp): Phase *)
(* B (discovery of the test methods) and Phase C (mapping) each compute    *)
(* numThreads from std::thread::hardware_concurrency() and start that many *)
(* workers.                                                                *)
(***************************************************************************)
\* most logical cores hardware_concurrency() reports
MaxCores == 12

\* the default number of workers written in lines 119 and 228
DefaultThreads == 4

\* lines 118 and 227: std::max(1u, std::thread::hardware_concurrency())
hwOf(cores) == IF cores > 1 THEN cores ELSE 1

\* lines 118-119 and 227-228: hw ? hw : 4u
numThreadsOf(cores) == IF hwOf(cores) # 0 THEN hwOf(cores) ELSE DefaultThreads

\* main has reached Phase B
InitPool ==
    /\ poolPhase = "discoverMethods"
    /\ hwSeen = -1
    /\ poolSize = 0
    /\ spawned = 0
    /\ ImpactIdle
    /\ IndexerIdle
    /\ SliceIdle
    /\ CodecIdle
    /\ ChunkerIdle
    /\ DecodeIdle
    /\ ReaderIdle
    /\ ConfigIdle
    /\ DiscIdle
    /\ LoadIdle

\* lines 118-119 and 227-228: hardware_concurrency() answers 0 (unknown) or
\* the number of logical cores
ComputeThreads ==
    /\ poolPhase \in {"discoverMethods", "mapping"}
    /\ poolSize = 0
    /\ \E cores \in 0..MaxCores :
          /\ hwSeen' = cores
          /\ poolSize' = numThreadsOf(cores)
    /\ UNCHANGED <<poolPhase, spawned>>
    /\ UNCHANGED notPool

\* lines 144-145 and 232-233: one trip of the loop that starts the workers
StartWorker ==
    /\ poolSize > 0
    /\ spawned < poolSize
    /\ spawned' = spawned + 1
    /\ UNCHANGED <<poolPhase, hwSeen, poolSize>>
    /\ UNCHANGED notPool

\* lines 180-182 and 276: the workers started are joined, the phase is over
JoinPool ==
    /\ poolSize > 0
    /\ spawned = poolSize
    /\ poolPhase' = IF poolPhase = "discoverMethods" THEN "mapping" ELSE "write"
    /\ hwSeen' = -1
    /\ poolSize' = 0
    /\ spawned' = 0
    /\ UNCHANGED notPool

NextPool == ComputeThreads \/ StartWorker \/ JoinPool

SpecPool == InitPool /\ [][NextPool]_vars

\* C29: worker count: in Phase B and in Phase C the test indexer starts one
\* worker per logical core, never fewer than 1, and 4 workers when
\* hardware_concurrency() returns 0.
C29_WorkerCount ==
    (poolSize > 0 /\ spawned = poolSize) =>
        /\ spawned >= 1
        /\ hwSeen >= 1 => spawned = hwSeen
        /\ hwSeen = 0 => spawned = 4


(***************************************************************************)
(* The mapping set of Phase C and its mutex.                               *)
(***************************************************************************)
\* worker w is inside a lock_guard block (lines 256-260 and 266-270)
workerInGuard(w) == wpc[w] \in {"mergeMid", "mergeFinal"}

\* the reporter is inside its lock_guard block (lines 214-217)
reporterInGuard == ppc = "read"

\* the threads that are reading or writing mappingSet
threadsOnSink ==
    {w \in DOMAIN wpc : workerInGuard(w)} \cup (IF reporterInGuard THEN {Reporter} ELSE {})

\* C30: mutual exclusion on the sink: in every state of Phase C at most one
\* thread (worker or reporter) is reading or writing the mapping set, the
\* thread that does holds mappingMutex, and a worker holds the mutex only
\* while it merges a batch, never while it traverses edges.
C30_SinkMutualExclusion ==
    /\ Cardinality(threadsOnSink) <= 1
    /\ \A t \in threadsOnSink : mappingMutex = t
    /\ \A w \in DOMAIN wpc : mappingMutex = w => workerInGuard(w)
    /\ mappingMutex = Reporter => reporterInGuard

\* a worker merges its batch under the mutex while the other worker and the
\* reporter wait for it
C30_Witness ==
    \E w, v \in DOMAIN wpc :
        /\ w # v
        /\ workerInGuard(w)
        /\ mappingMutex = w
        /\ wBatch[w] # <<>>
        /\ wpc[v] \in {"lockMid", "lockFinal"}
        /\ ppc = "lock"


(***************************************************************************)
(* Phase B of the test indexer (test_indexer/src/main.cpp, lines 114-188): *)
(* numThreads workers claim chunks of kClassChunk test classes from the    *)
(* atomic cursor classIndex, collect the METHOD children of each class and *)
(* publish them into testMethodIds under testMethodMutex.  A lock_guard    *)
(* block is one step.  The reporter thread of lines 126-139 only reads.    *)
(* Test classes are named by their index in testClassIds.                  *)
(***************************************************************************)
\* most test classes
MaxClasses == 4

\* kClassChunk (64 in the code, line 143)
kClassChunk == 2

\* the size at which a worker publishes its local methods (256, line 165)
kLocalFlush == 2

\* the METHOD children a test class can have: none, or one method
KidsOfClass(i) == {<<>>, <<10 + i>>}

\* the workers of Phase B
DiscWorkers == 1..discThreads

\* a chunk that runs one class into the next chunk
chunkEnd_Overlap(start, size) ==
    IF start + kClassChunk + 1 < size THEN start + kClassChunk + 1 ELSE size

\* line 152: std::min(start + kClassChunk, testClassIds.size())
chunkEnd(start, size) ==
    IF start + kClassChunk < size THEN start + kClassChunk ELSE size

\* Phase A has produced testClassIds; the workers of Phase B are started
InitDisc ==
    /\ bpc = "run"
    /\ discThreads \in 1..MaxThreads
    /\ \E n \in 0..MaxClasses :
          /\ testClassKids \in {f \in [1..n -> {<<>>} \cup {<<10 + i>> : i \in 1..n}] :
                                   \A i \in 1..n : f[i] \in KidsOfClass(i)}
          /\ timesProcessed = [i \in 1..n |-> 0]
    /\ classIndex = 0
    /\ bwpc = [w \in DiscWorkers |-> "fetch"]
    /\ bEnd = [w \in DiscWorkers |-> 0]
    /\ bI = [w \in DiscWorkers |-> 0]
    /\ localMethods = [w \in DiscWorkers |-> <<>>]
    /\ foundMethodIds = <<>>
    /\ classesProcessed = 0
    /\ methodsFound = 0
    /\ ImpactIdle
    /\ IndexerIdle
    /\ SliceIdle
    /\ CodecIdle
    /\ ChunkerIdle
    /\ DecodeIdle
    /\ ReaderIdle
    /\ ConfigIdle
    /\ PoolIdle
    /\ LoadIdle

\* lines 150-152: claim the next chunk, or leave the loop
BFetch(w) ==
    /\ bpc = "run" /\ w \in DiscWorkers /\ bwpc[w] = "fetch"
    /\ classIndex' = classIndex + kClassChunk
    /\ IF classIndex >= Len(testClassKids)
       THEN /\ bwpc' = [bwpc EXCEPT ![w] = "final"]
            /\ UNCHANGED <<bEnd, bI>>
       ELSE /\ bEnd' = [bEnd EXCEPT ![w] = chunkEnd(classIndex, Len(testClassKids))]
            /\ bI' = [bI EXCEPT ![w] = classIndex]
            /\ bwpc' = [bwpc EXCEPT ![w] = "class"]
    /\ UNCHANGED <<bpc, discThreads, testClassKids, localMethods, foundMethodIds,
                   classesProcessed, methodsFound, timesProcessed>>
    /\ UNCHANGED notDisc

\* lines 154-170: scan the class at index i, publish the local methods when
\* there are kLocalFlush of them, count the class, step to the next index
BClass(w) ==
    /\ bpc = "run" /\ w \in DiscWorkers /\ bwpc[w] = "class"
    /\ LET kids  == testClassKids[bI[w] + 1]
           local == localMethods[w] \o kids
       IN  /\ methodsFound' = methodsFound + Len(kids)
           /\ IF Len(local) >= kLocalFlush
              THEN /\ foundMethodIds' = foundMethodIds \o local
                   /\ localMethods' = [localMethods EXCEPT ![w] = <<>>]
              ELSE /\ localMethods' = [localMethods EXCEPT ![w] = local]
                   /\ UNCHANGED foundMethodIds
    /\ classesProcessed' = classesProcessed + 1
    /\ timesProcessed' = [timesProcessed EXCEPT ![bI[w] + 1] = @ + 1]
    /\ bI' = [bI EXCEPT ![w] = bI[w] + 1]
    /\ bwpc' = [bwpc EXCEPT ![w] = IF bI[w] + 1 < bEnd[w] THEN "class" ELSE "fetch"]
    /\ UNCHANGED <<bpc, discThreads, testClassKids, classIndex, bEnd>>
    /\ UNCHANGED notDisc

\* lines 174-178: publish what is left and return
BFinal(w) ==
    /\ bpc = "run" /\ w \in DiscWorkers /\ bwpc[w] = "final"
    /\ foundMethodIds' = foundMethodIds \o localMethods[w]
    /\ localMethods' = [localMethods EXCEPT ![w] = <<>>]
    /\ bwpc' = [bwpc EXCEPT ![w] = "exit"]
    /\ UNCHANGED <<bpc, discThreads, testClassKids, classIndex, bEnd, bI,
                   classesProcessed, methodsFound, timesProcessed>>
    /\ UNCHANGED notDisc

\* lines 183-188: join the workers, sort testMethodIds and drop duplicates
BJoin ==
    /\ bpc = "run"
    /\ \A w \in DiscWorkers : bwpc[w] = "exit"
    /\ foundMethodIds' = SortUnique(SeqToSet(foundMethodIds))
    /\ bpc' = "joined"
    /\ UNCHANGED <<discThreads, testClassKids, classIndex, bwpc, bEnd, bI,
                   localMethods, classesProcessed, methodsFound, timesProcessed>>
    /\ UNCHANGED notDisc

DiscWorkerStep == \E w \in 1..MaxThreads : BFetch(w) \/ BClass(w) \/ BFinal(w)


\* the two worker pools of the test indexer: Phase B on test class lists of
\* every length up to MaxClasses, Phase C on the graphs of the indexer
InitDispatch == InitDisc \/ InitIndexer

NextDispatch ==
    \/ DiscWorkerStep
    \/ BJoin
    \/ FindNamespace
    \/ Discover
    \/ SpawnWorkers
    \/ WorkerStep
    \/ PCheck
    \/ PLock
    \/ PRead
    \/ JoinWorkers
    \/ OpenWriter
    \/ RecordMapping
    \/ CommitMappings

SpecDispatch == InitDispatch /\ [][NextDispatch]_vars

\* Phase B worker w holds a chunk it has not finished
inChunk(w) == bwpc[w] = "class"

\* Phase C worker w holds a test method it has not finished
holdsMethod(w) == wpc[w] \notin {"fetch", "exit"}

\* Phase B: no class is scanned twice, the chunks held are disjoint and lie
\* below the cursor, and once every worker has returned each class has been
\* scanned once and counted
DispatchB ==
    /\ \A i \in DOMAIN timesProcessed : timesProcessed[i] <= 1
    /\ \A w, v \in DOMAIN bwpc :
          (w # v /\ inChunk(w) /\ inChunk(v)) => (bEnd[w] <= bI[v] \/ bEnd[v] <= bI[w])
    /\ \A w \in DOMAIN bwpc :
          inChunk(w) => /\ bEnd[w] <= classIndex
                        /\ \A i \in (bI[w] + 1)..bEnd[w] : timesProcessed[i] = 0
    /\ (bwpc # <<>> /\ \A w \in DOMAIN bwpc : bwpc[w] = "exit") =>
          /\ \A i \in DOMAIN timesProcessed : timesProcessed[i] = 1
          /\ classesProcessed = Len(testClassKids)

\* Phase C: the methods held by two workers differ, every index below the
\* cursor is held or done, and once every worker has returned each test
\* method has been processed
DispatchC ==
    /\ \A w, v \in DOMAIN wpc :
          (w # v /\ holdsMethod(w) /\ holdsMethod(v)) => wMethod[w] # wMethod[v]
    /\ wpc # <<>> =>
          methodsProcessed + Cardinality({w \in DOMAIN wpc : holdsMethod(w)})
              = (IF nextIndex < Len(testMethodIds) THEN nextIndex ELSE Len(testMethodIds))
    /\ (wpc # <<>> /\ \A w \in DOMAIN wpc : wpc[w] = "exit") =>
          methodsProcessed = Len(testMethodIds)

\* C31: exactly-once dispatch: for every interleaving each index of the task
\* list is claimed by one worker only (test classes in chunks of kClassChunk
\* in Phase B, test methods one at a time in Phase C), so every task is
\* processed exactly once; after the workers join, classesProcessed is the
\* number of test classes and methodsProcessed the number of test methods.
C31_ExactlyOnceDispatch == DispatchB /\ DispatchC

\* Phase B has ended on a list of MaxClasses classes that two workers shared
\* in several chunks
C31_Witness ==
    /\ bpc = "joined"
    /\ discThreads = 2
    /\ Len(testClassKids) > kClassChunk
    /\ classIndex >= Len(testClassKids) + 2 * kClassChunk
    /\ classesProcessed = Len(testClassKids)


(***************************************************************************)
(* Phase C under fair scheduling: every thread that can take a step        *)
(* eventually takes one, and a thread waiting in a lock_guard gets the     *)
(* mutex when it is released again and again (the reporter sleeps five     *)
(* seconds after each release, line 222).                                  *)
(***************************************************************************)
\* the call back into m1 that makes the graph cyclic (m1 -> a1 -> a2 -> m1)
CallBackEdge == [sourceSymbolId |-> 6, targetSymbolId |-> 3, edgeKind |-> "CALL"]

\* the indexer is run on Scenario D, with and without the cycle
InitIndexerLive ==
    /\ InitIndexer
    /\ testNamespace = "UT"
    /\ iEdges \in {ScenarioDEdges, ScenarioDEdges \o <<CallBackEdge>>}

\* the steps of worker w other than waiting for the mutex
WorkerRuns(w) == WFetch(w) \/ WPop(w) \/ WEdge(w) \/ WMerge(w)

\* the steps of the reporter thread
ReporterRuns == PCheck \/ PLock \/ PRead

\* the steps of the main thread
MainRuns ==
    \/ FindNamespace
    \/ Discover
    \/ SpawnWorkers
    \/ JoinWorkers
    \/ OpenWriter
    \/ RecordMapping
    \/ CommitMappings

FairIndexer ==
    /\ \A w \in 1..MaxThreads : WF_vars(WorkerRuns(w)) /\ SF_vars(WLock(w))
    /\ WF_vars(ReporterRuns)
    /\ WF_vars(MainRuns)

SpecIndexerLive == InitIndexerLive /\ [][NextIndexer]_vars /\ FairIndexer

\* every worker has returned
AllWorkersExited == wpc # <<>> /\ \A w \in DOMAIN wpc : wpc[w] = "exit"

\* C32: Phase C always completes: under fair scheduling, once the workers
\* are started every worker eventually exits (cyclic graphs included, no
\* deadlock on the mapping mutex), and after the workers have joined the
\* reporter sees the stop flag and terminates.
C32_PhaseCCompletes ==
    /\ (ipc = "join") ~> AllWorkersExited
    /\ (ipc = "join") ~> (stopProgress /\ ppc = "exit")

\* Phase C has ended on the cyclic graph with two workers: all have exited,
\* the reporter has seen the stop flag and returned
C32_Witness ==
    /\ AllWorkersExited
    /\ numThreads = 2
    /\ CallBackEdge \in SeqToSet(iEdges)
    /\ stopProgress
    /\ ppc = "exit"
    /\ mappingSet # {}


(***************************************************************************)
(* The in-memory graph of the impact analyzer.                             *)
(***************************************************************************)
\* the graph has been built
GraphBuilt == pc \in {"bfs", "done"}

\* the edges of the stream that leave id, and those that enter it, as
\* (neighbour, kind) pairs in stream order
leavingInOrder(id) ==
    LET es == SelectSeq(briefEdges, LAMBDA e : e.sourceSymbolId = id)
    IN  [i \in 1..Len(es) |-> <<es[i].targetSymbolId, es[i].edgeKind>>]
enteringInOrder(id) ==
    LET es == SelectSeq(briefEdges, LAMBDA e : e.targetSymbolId = id)
    IN  [i \in 1..Len(es) |-> <<es[i].sourceSymbolId, es[i].edgeKind>>]

RECURSIVE SumLen(_, _)
\* the total length of the lists adj[0..n]
SumLen(adj, n) == IF n < 0 THEN 0 ELSE Len(adj[n]) + SumLen(adj, n - 1)

\* C33: graph adjacency: after graph construction, for every ingested edge
\* (s, t, k) the pair (t, k) is in outgoing[s] and (s, k) in incoming[t], the
\* lengths of all outgoing and incoming lists sum to 2 x |edges|, each list
\* keeps the order of the edge stream, and every index used into the dense
\* tables lies in [0, max_id].
C33_GraphAdjacency ==
    GraphBuilt =>
        LET maxId == maxIdOf(briefEdges)
        IN  /\ DOMAIN outgoingAdj = 0..maxId
            /\ DOMAIN incomingAdj = 0..maxId
            /\ \A i \in 1..Len(briefEdges) :
                  LET e == briefEdges[i]
                  IN  /\ e.sourceSymbolId \in 0..maxId
                      /\ e.targetSymbolId \in 0..maxId
                      /\ <<e.targetSymbolId, e.edgeKind>>
                            \in SeqToSet(outgoingAdj[e.sourceSymbolId])
                      /\ <<e.sourceSymbolId, e.edgeKind>>
                            \in SeqToSet(incomingAdj[e.targetSymbolId])
            /\ SumLen(outgoingAdj, maxId) + SumLen(incomingAdj, maxId)
                  = 2 * Len(briefEdges)
            /\ \A id \in 0..maxId :
                  /\ outgoingAdj[id] = leavingInOrder(id)
                  /\ incomingAdj[id] = enteringInOrder(id)
            /\ \A i \in 1..Len(queue) : queue[i].symbolId \in 0..maxId

\* the graph has been built from a stream where one node has two outgoing
\* and another two incoming edges
C33_Witness ==
    /\ GraphBuilt
    /\ \E id \in DOMAIN outgoingAdj : Len(outgoingAdj[id]) >= 2
    /\ \E id \in DOMAIN incomingAdj : Len(incomingAdj[id]) >= 2
    /\ Len(briefEdges) = MaxEdges


\* ---------------------------------------------------------------------------
\* Phase D: per-pair failures
\* ---------------------------------------------------------------------------

\* every pair of the mapping set is either still to be submitted or has been
\* submitted once, with success or with a reported failure
PhaseDAccounts ==
    ipc \in {"write", "done"} =>
        /\ pending \subseteq mappingSet
        /\ SeqToSet(tests) \cap pending = {}
        /\ mappings + failures + Cardinality(pending) = Cardinality(mappingSet)
        /\ Len(tests) = mappings

\* the loop is left only through the commit, with nothing left to submit
PhaseDCommits ==
    (ipc = "write" /\ ipc' # "write") => (ipc' = "done" /\ pending = {} /\ pending' = {})

\* one call per step: a failed call is counted as reported and the loop stays
\* in Phase D with the remaining pairs untouched
PhaseDGoesOn ==
    (ipc = "write" /\ pending' # pending) =>
        /\ ipc' = "write"
        /\ \E p \in pending : pending' = pending \ {p}
        /\ \/ mappings' = mappings + 1 /\ failures' = failures
           \/ mappings' = mappings /\ failures' = failures + 1

\* C34: Phase D submits every pair of the in-memory mapping set exactly once;
\* a failed insert is reported and does not stop the remaining inserts, the
\* loop is left only by committing the transaction, and the reported count is
\* the number of successful inserts.
C34_PhaseDToleratesFailures ==
    /\ []PhaseDAccounts
    /\ [][PhaseDCommits /\ PhaseDGoesOn]_vars

\* Phase D committed after a failed insert that was followed by a successful one
C34_Witness ==
    /\ ipc = "done"
    /\ failures >= 1
    /\ mappings >= 1
    /\ \E p \in mappingSet \ SeqToSet(tests) : \E q \in SeqToSet(tests) :
          p[1] < q[1] \/ (p[1] = q[1] /\ p[2] < q[2])

\* ---------------------------------------------------------------------------
\* Traversal states in the queue
\* ---------------------------------------------------------------------------

\* the (symbol id, mode) state a queue item carries
stateOf(item) == <<item.symbolId, item.modeKind>>

\* C35: no two queue items carry the same (symbol id, mode), seeds included,
\* so the visited set has exactly as many entries as the queue, also when
\* several start specs resolve to the same symbol with the same mode.
C35_EnqueuedAtMostOnce ==
    GraphBuilt =>
        /\ \A i, j \in 1..Len(queue) :
              stateOf(queue[i]) = stateOf(queue[j]) => i = j
        /\ Cardinality(visited) = Len(queue)

\* ---------------------------------------------------------------------------
\* Parent pointers of the queue
\* ---------------------------------------------------------------------------

\* the edge kinds processEdge lets through in the given mode
passesModeFilter(mode, edgeKind) ==
    ~(mode = "METHOD" /\ edgeKind \in {"MEMBER", "TYPE_USAGE"})

\* an edge of the stream along which processEdge of the parent reaches the child:
\* an incoming edge of the parent, or an outgoing OVERRIDE edge of the parent
joinedByEdge(parent, child) ==
    \E k \in 1..Len(briefEdges) :
        LET e == briefEdges[k]
        IN  \/ /\ e.targetSymbolId = parent.symbolId
               /\ e.sourceSymbolId = child.symbolId
               /\ passesModeFilter(child.modeKind, e.edgeKind)
            \/ /\ e.sourceSymbolId = parent.symbolId
               /\ e.targetSymbolId = child.symbolId
               /\ e.edgeKind = "OVERRIDE"

isSeedItem(item) == item.parentIndex = -1 /\ item.depth = 0

\* queue index i (from 1) holds a seed or a child of an earlier item
parentLinkOk(i) ==
    LET item == queue[i]
    IN  \/ isSeedItem(item)
        \/ /\ item.parentIndex >= 0
           /\ item.parentIndex < i - 1
           /\ LET parent == queue[item.parentIndex + 1]
              IN  /\ parent.modeKind = item.modeKind
                  /\ parent.depth = item.depth - 1
                  /\ joinedByEdge(parent, item)

\* C36: every queue item is a seed (no parent, depth 0) or has a parent index
\* strictly smaller than its own whose item has the same mode, depth one
\* less and is joined to it by an incoming edge or an outgoing OVERRIDE edge
\* passing the mode filter; depths never decrease along the queue and the
\* walk over parent pointers from any item ends at a seed.
C36_ParentPointers ==
    GraphBuilt =>
        /\ \A i \in 1..Len(queue) : parentLinkOk(i)
        /\ \A i, j \in 1..Len(queue) : i <= j => queue[i].depth <= queue[j].depth
        /\ \A i \in 1..Len(queue) :
              LET chain == buildPathChain(queue, i - 1)
              IN  /\ Len(chain) = queue[i].depth + 1
                  /\ chain[Len(chain)] = queue[i].symbolId
                  /\ \E s \in 1..Len(queue) :
                        isSeedItem(queue[s]) /\ queue[s].symbolId = chain[1]

\* an item two steps from its seed, and an item reached from its parent only
\* along an outgoing OVERRIDE edge of the parent
C36_Witness ==
    /\ GraphBuilt
    /\ \E i \in 1..Len(queue) : queue[i].depth >= 2
    /\ \E i \in 1..Len(queue) :
          /\ queue[i].parentIndex >= 0
          /\ queueVia[i] = "OVERRIDE"
          /\ ~\E k \in 1..Len(briefEdges) :
                /\ briefEdges[k].targetSymbolId = queue[queue[i].parentIndex + 1].symbolId
                /\ briefEdges[k].sourceSymbolId = queue[i].symbolId

\* ---------------------------------------------------------------------------
\* Expansion of processed nodes
\* ---------------------------------------------------------------------------

\* the neighbours the expansion of an item has to visit: sources of its
\* incoming edges and targets of its outgoing OVERRIDE edges, under the mode filter
neighboursOf(item) ==
    {briefEdges[k].sourceSymbolId : k \in {n \in 1..Len(briefEdges) :
        /\ briefEdges[n].targetSymbolId = item.symbolId
        /\ passesModeFilter(item.modeKind, briefEdges[n].edgeKind)}}
    \cup
    {briefEdges[k].targetSymbolId : k \in {n \in 1..Len(briefEdges) :
        /\ briefEdges[n].sourceSymbolId = item.symbolId
        /\ briefEdges[n].edgeKind = "OVERRIDE"}}

\* the item is one the loop body goes on with: known symbol, not excluded
isProcessed(item) ==
    /\ getSymById(item.symbolId) # NoSymbol
    /\ ~isIgnored(getSymById(item.symbolId))

\* every dequeued item that is processed has all its neighbours visited
ExpandedAll ==
    GraphBuilt =>
        \A i \in 1..head :
            isProcessed(queue[i]) =>
                \A nb \in neighboursOf(queue[i]) :
                    <<nb, queue[i].modeKind>> \in visited

\* one iteration visits nothing but the neighbours of the dequeued item
ExpandsOnlyNeighbours ==
    (pc = "bfs" /\ head' = head + 1) =>
        \A v \in visited' \ visited :
            /\ v[2] = queue[head + 1].modeKind
            /\ v[1] \in neighboursOf(queue[head + 1])

\* C37: every dequeued node that resolves to a known symbol and is not
\* excluded is expanded: the sources of all its incoming edges and the targets
\* of its outgoing OVERRIDE edges (no other outgoing kind) that pass the mode
\* filter are visited, also for a method whose test class is already reported.
C37_ExpansionOfProcessed ==
    /\ []ExpandedAll
    /\ [][ExpandsOnlyNeighbours]_vars

\* ---------------------------------------------------------------------------
\* Reported hits are test classes
\* ---------------------------------------------------------------------------

\* configurations whose test namespace is the namespace of the test classes
\* or the name of one of them
DetectConfigs ==
    [testNamespace  : {"UnitTests", "FooTests"},
     startSymbols   : {<<SpecBarMethod>>, <<SpecBarAny>>, <<SpecIRun>>},
     excludeSymbols : {{}}]

InitDetect ==
    /\ pc = "resolve"
    /\ cfg \in DetectConfigs
    /\ briefEdges \in EdgeStreams
    /\ allStartSymbols = <<>>
    /\ startSymbolMode = <<>>
    /\ incomingAdj = <<>>
    /\ outgoingAdj = <<>>
    /\ queue = <<>>
    /\ head = 0
    /\ visited = {}
    /\ foundTestSymbols = <<>>
    /\ foundTestSymbolsSet = {}
    /\ foundTestFqnsSet = {}
    /\ hitPaths = <<>>
    /\ queueVia = <<>>
    /\ limitWarning = FALSE
    /\ exitCode = -1
    /\ IndexerIdle
    /\ SliceIdle
    /\ CodecIdle
    /\ ChunkerIdle
    /\ DecodeIdle
    /\ ReaderIdle
    /\ ConfigIdle
    /\ PoolIdle
    /\ DiscIdle
    /\ LoadIdle

SpecDetect == InitDetect /\ [][NextImpact]_vars

\* the symbol is a CLASS or STRUCT named ...Test or ...Tests with the test
\* namespace among the elements of its own hierarchy before the last
isTestClass(sym) ==
    /\ sym # NoSymbol
    /\ sym.symbolKind \in {"CLASS", "STRUCT"}
    /\ sym.names # <<>>
    /\ isTestClassName(sym.names[Len(sym.names)])
    /\ \E i \in 1..(Len(sym.names) - 1) : sym.names[i] = cfg.testNamespace

\* C38: every reported hit is a test class: a CLASS or STRUCT whose last name
\* element ends with Test or Tests and whose own name hierarchy has the test
\* namespace as an element other than the last, also when the class is
\* reported through the promotion of one of its methods.
C38_HitsAreTestClasses ==
    \A k \in 1..Len(foundTestSymbols) :
        isTestClass(getSymById(foundTestSymbols[k][1]))

\* ---------------------------------------------------------------------------
\* Progress counters of Phase C
\* ---------------------------------------------------------------------------

\* every worker has left its loop, or main is already past the join
PhaseCCompleted ==
    \/ ipc = "join" /\ AllWorkersExited
    \/ ipc \in {"joinProgress", "write", "done", "failed"}

\* C39: during Phase C the mapping set never has more pairs than
\* pairsDiscovered counts; once Phase C has completed pairsDiscovered equals
\* the size of the mapping set (no pair was discarded as a duplicate) and
\* nodesVisited equals pairsDiscovered plus the number of test methods.
C39_CounterConsistency ==
    /\ ipc = "join" => Cardinality(mappingSet) <= pairsDiscovered
    /\ PhaseCCompleted =>
          /\ pairsDiscovered = Cardinality(mappingSet)
          /\ nodesVisited = pairsDiscovered + Len(testMethodIds)

\* Phase C completed with two test methods mapped to a common symbol
C39_Witness ==
    /\ PhaseCCompleted
    /\ Len(testMethodIds) >= 2
    /\ \E p, r \in mappingSet : p[1] = r[1] /\ p[2] # r[2]
    /\ pairsDiscovered >= 3

(***************************************************************************)
(* Graph load of the impact analyzer (main.cpp:348-353): getAllSymbols,    *)
(* getAllEdgesBrief, then one check of getLastError.  The reader is open;  *)
(* a storage query may throw, which the reader catches and turns into its  *)
(* last error.                                                             *)
(***************************************************************************)
\* the storage queries behind the two loads
SymbolQuery == "getAllSymbolNodes"
EdgeQuery == "getAll<StorageEdge>"
StorageQueries == {SymbolQuery, EdgeQuery}

\* m_lastError after a load: cleared on entry, then set if the reader is not
\* open or the storage query threw
lastErrorAfterLoad(open, threw, message) ==
    IF ~open THEN NotOpenError
    ELSE IF threw THEN message
    ELSE ""

\* everything but the reader and the load
notLoadReader ==
    <<varsImpact, varsIndexer, varsSlice, varsCodec, varsChunker, varsDecode,
      varsConfig, varsPool, varsDisc>>

InitLoad ==
    /\ lpc = "symbols"
    /\ loadFaults \in SUBSET StorageQueries
    /\ loadErrors = {}
    /\ warned = ""
    /\ m_databaseStorage = GoodPath
    /\ m_lastError = ""
    /\ lastCall = Call("construct", "", 0, TRUE, <<>>, FALSE)
    /\ dbNodes \in NodeTables
    /\ ImpactIdle
    /\ IndexerIdle
    /\ SliceIdle
    /\ CodecIdle
    /\ ChunkerIdle
    /\ DecodeIdle
    /\ ConfigIdle
    /\ PoolIdle
    /\ DiscIdle

\* auto allSymbols = reader.getAllSymbols();
LoadAllSymbols ==
    /\ lpc = "symbols"
    /\ LET threw == SymbolQuery \in loadFaults
           err   == lastErrorAfterLoad(isOpen, threw, "Exception while getting symbols")
           ns    == getAllSymbolNodes(m_databaseStorage)
       IN  /\ m_lastError' = err
           /\ loadErrors' = IF err # "" THEN loadErrors \cup {"getAllSymbols"}
                            ELSE loadErrors
           /\ lastCall' = Call("getAllSymbols", "", 0, TRUE,
                               IF isOpen /\ ~threw
                               THEN [i \in 1..Len(ns) |-> ns[i].id] ELSE <<>>, FALSE)
    /\ lpc' = "edges"
    /\ UNCHANGED <<m_databaseStorage, dbNodes, loadFaults, warned>>
    /\ UNCHANGED notLoadReader

\* auto briefEdges = reader.getAllEdgesBrief();
LoadAllEdgesBrief ==
    /\ lpc = "edges"
    /\ LET threw == EdgeQuery \in loadFaults
           err   == lastErrorAfterLoad(isOpen, threw, "Exception while getting brief edges")
       IN  /\ m_lastError' = err
           /\ loadErrors' = IF err # "" THEN loadErrors \cup {"getAllEdgesBrief"}
                            ELSE loadErrors
           /\ lastCall' = Call("getAllEdgesBrief", "", 0, TRUE, <<>>, FALSE)
    /\ lpc' = "check"
    /\ UNCHANGED <<m_databaseStorage, dbNodes, loadFaults, warned>>
    /\ UNCHANGED notLoadReader

\* if (!reader.getLastError().empty()) std::cerr << "Warning: reader reported: " ...
WarningCheck ==
    /\ lpc = "check"
    /\ warned' = m_lastError
    /\ lpc' = "done"
    /\ UNCHANGED <<varsReader, loadFaults, loadErrors>>
    /\ UNCHANGED notLoadReader

NextLoad == LoadAllSymbols \/ LoadAllEdgesBrief \/ WarningCheck

SpecLoad == InitLoad /\ [][NextLoad]_vars

\* C40: if getAllSymbols or getAllEdgesBrief ended with a last error, the
\* warning check after both loads reports a reader error; a failure of the
\* first load is not hidden by the success of the second.
C40_LoadFailuresReported ==
    lpc = "done" => (loadErrors # {} => warned # "")

=============================================================================
